---- MODULE Spec2Model ----
(***************************************************************************)
(* A model of the chat assistant's File Synchronizer (FileManager): path   *)
(* validation, createFile / updateFile / deleteFile with their backup and   *)
(* rollback steps, and getFileSuggestions.                                  *)
(*                                                                         *)
(* Strings are TLA+ strings (sequences of characters); the character at    *)
(* position i of s is SubSeq(s, i, i).  The host is a POSIX host: the path  *)
(* functions are those of Node's path.posix.                                *)
(***************************************************************************)
EXTENDS Integers, Sequences, FiniteSets, TLC

(***************************************************************************)
(* Bounds of the model.                                                    *)
(***************************************************************************)
\* longest generated path string (all strings over PathAlphabet up to it)
MaxPathLen == 4
\* number of I/O failures injected into one call
MaxFaults == 2
\* number of FileManager calls in one behaviour
MaxCalls == 2

(***************************************************************************)
(* Strings.                                                                *)
(***************************************************************************)
Max(S) == CHOOSE x \in S : \A y \in S : y <= x

At(s, i) == SubSeq(s, i, i)

Drop(s, n) == SubSeq(s, n + 1, Len(s))

Take(s, n) == SubSeq(s, 1, n)

StartsWith(s, p) == Len(p) <= Len(s) /\ Take(s, Len(p)) = p

EndsWith(s, p) == Len(p) <= Len(s) /\ Drop(s, Len(s) - Len(p)) = p

Includes(s, p) == \E i \in 0..(Len(s) - Len(p)) : SubSeq(s, i + 1, i + Len(p)) = p

\* all strings over the alphabet A of length at most n
RECURSIVE StringsUpTo(_, _)
StringsUpTo(A, n) ==
    IF n = 0 THEN {""}
    ELSE LET S == StringsUpTo(A, n - 1) IN S \cup {s \o a : s \in S, a \in A}

\* String.prototype.split("/"): the components between the separators
RECURSIVE SplitFrom(_, _, _)
SplitFrom(s, i, cur) ==
    IF i > Len(s) THEN <<cur>>
    ELSE IF At(s, i) = "/" THEN <<cur>> \o SplitFrom(s, i + 1, "")
    ELSE SplitFrom(s, i + 1, cur \o At(s, i))

Split(s) == SplitFrom(s, 1, "")

\* Array.prototype.join("/")
RECURSIVE JoinSlash(_)
JoinSlash(cs) ==
    IF cs = <<>> THEN ""
    ELSE IF Len(cs) = 1 THEN cs[1]
    ELSE cs[1] \o "/" \o JoinSlash(Tail(cs))

(***************************************************************************)
(* Node's path module (posix).                                             *)
(***************************************************************************)
\* normalizeString: resolves "." and ".." components
RECURSIVE NormalizeComps(_, _, _)
NormalizeComps(cs, res, allowAboveRoot) ==
    IF cs = <<>> THEN res
    ELSE LET c == Head(cs)
             rest == Tail(cs)
         IN  IF c = "" \/ c = "." THEN NormalizeComps(rest, res, allowAboveRoot)
             ELSE IF c = ".." THEN
                 IF res # <<>> /\ res[Len(res)] # ".."
                 THEN NormalizeComps(rest, SubSeq(res, 1, Len(res) - 1), allowAboveRoot)
                 ELSE IF allowAboveRoot
                 THEN NormalizeComps(rest, Append(res, ".."), allowAboveRoot)
                 ELSE NormalizeComps(rest, res, allowAboveRoot)
             ELSE NormalizeComps(rest, Append(res, c), allowAboveRoot)

PathIsAbsolute(p) == Len(p) > 0 /\ At(p, 1) = "/"

PathNormalize(p) ==
    IF p = "" THEN "."
    ELSE LET isAbs == PathIsAbsolute(p)
             trailing == At(p, Len(p)) = "/"
             body == JoinSlash(NormalizeComps(Split(p), <<>>, ~isAbs))
         IN  IF body = ""
             THEN (IF isAbs THEN "/" ELSE IF trailing THEN "./" ELSE ".")
             ELSE (IF isAbs THEN "/" ELSE "") \o body \o (IF trailing THEN "/" ELSE "")

PathJoin(a, b) ==
    LET joined == IF a = "" THEN b ELSE IF b = "" THEN a ELSE a \o "/" \o b
    IN  IF joined = "" THEN "." ELSE PathNormalize(joined)

\* path.resolve of an absolute path: its components, without a trailing separator
ResolveComps(p) == NormalizeComps(Split(p), <<>>, FALSE)

PathResolve(p) == "/" \o JoinSlash(ResolveComps(p))

RECURSIVE CommonPrefixLen(_, _)
CommonPrefixLen(a, b) ==
    IF a = <<>> \/ b = <<>> \/ Head(a) # Head(b) THEN 0
    ELSE 1 + CommonPrefixLen(Tail(a), Tail(b))

\* path.relative(from, to), both absolute
PathRelative(from, to) ==
    LET f == ResolveComps(from)
        t == ResolveComps(to)
        k == CommonPrefixLen(f, t)
    IN  JoinSlash([i \in 1..(Len(f) - k) |-> ".."] \o SubSeq(t, k + 1, Len(t)))

\* path.dirname of an absolute path
PathDirname(p) ==
    LET cs == ResolveComps(p)
    IN  IF Len(cs) <= 1 THEN "/" ELSE "/" \o JoinSlash(SubSeq(cs, 1, Len(cs) - 1))

(***************************************************************************)
(* FileManager: path validation.                                           *)
(***************************************************************************)
workspaceRootPath == "/w"

\* 50MB limit
maxFileSize == 50 * 1024 * 1024

\* The character "~" of a content string stands for a run of FillRun bytes
\* "x"; every other character is one byte.  It lets a short string have a
\* byte length around the limit.
FillRun == maxFileSize - 1

RECURSIVE ByteLength(_)
ByteLength(s) ==
    IF s = "" THEN 0
    ELSE (IF At(s, 1) = "~" THEN FillRun ELSE 1) + ByteLength(Drop(s, 1))

forbiddenChars == {"<", ">", ":", "\"", "|", "?", "*"}

\* filePath.replace(this.forbiddenChars, '_')
RECURSIVE ReplaceForbidden(_)
ReplaceForbidden(s) ==
    IF s = "" THEN ""
    ELSE (IF At(s, 1) \in forbiddenChars THEN "_" ELSE At(s, 1)) \o ReplaceForbidden(Drop(s, 1))

\* mutant: the leading ".." sequences are kept
StripLeadingDotDot_Kept(s) == s

\* .replace(/^(\.\.(\/|\\|$))+/, '')
RECURSIVE StripLeadingDotDot(_)
StripLeadingDotDot(s) ==
    IF StartsWith(s, "..") /\ Len(s) = 2 THEN ""
    ELSE IF StartsWith(s, "../") \/ StartsWith(s, "..\\") THEN StripLeadingDotDot(Drop(s, 3))
    ELSE s

\* validatePath: the sanitized path, or the error it throws
validatePath(filePath) ==
    IF filePath = "" THEN [err |-> "InvalidPath", path |-> ""]
    ELSE [err |-> "none",
          path |-> StripLeadingDotDot(PathNormalize(ReplaceForbidden(filePath)))]

\* /^(\.git|\.vscode|node_modules)/.test(relativePath)
\* a faulty variant: only .git is reserved
isSystemFile_GitOnly(relativePath) == StartsWith(relativePath, ".git")

isSystemFile(relativePath) ==
    \/ StartsWith(relativePath, ".git")
    \/ StartsWith(relativePath, ".vscode")
    \/ StartsWith(relativePath, "node_modules")

\* relativePath.startsWith('..') || path.isAbsolute(relativePath)
escapesWorkspace(relativePath) ==
    StartsWith(relativePath, "..") \/ PathIsAbsolute(relativePath)

\* a faulty variant: the size of the content is never checked
contentTooLarge_Unchecked(hasContent, content) == FALSE

\* content && Buffer.byteLength(content, 'utf8') > this.maxFileSize
\* (hasContent is FALSE for deleteFile, which passes no content)
contentTooLarge(hasContent, content) ==
    hasContent /\ content # "" /\ ByteLength(content) > maxFileSize

\* validateFileOperation: the error it throws, "none" when it returns
validateFileOperation(root, fullPath, hasContent, content) ==
    IF root = "" THEN "NoWorkspace"
    ELSE LET relativePath == PathRelative(root, fullPath)
         IN  IF escapesWorkspace(relativePath) THEN "OutsideWorkspace"
             ELSE IF contentTooLarge(hasContent, content) THEN "ContentTooLarge"
             ELSE IF isSystemFile(relativePath) THEN "SystemFileBlocked"
             ELSE "none"

(***************************************************************************)
(* FileManager: normalizeLineEndings and formatCode.                       *)
(***************************************************************************)
\* the characters \s matches and trim() removes
IsWs(c) == c \in {" ", "\t", "\n", "\r", "\f"}

\* the first index >= i of s that holds no whitespace (Len(s) + 1 if none)
RECURSIVE SkipWs(_, _)
SkipWs(s, i) == IF i <= Len(s) /\ IsWs(At(s, i)) THEN SkipWs(s, i + 1) ELSE i

\* the first index >= i of s that holds a character of stop (Len(s) + 1 if none)
RECURSIVE IndexOfAny(_, _, _)
IndexOfAny(s, stop, i) ==
    IF i > Len(s) \/ At(s, i) \in stop THEN i ELSE IndexOfAny(s, stop, i + 1)

\* replace(/;(?!\n)/g, ';\n') and replace(/{(?!\n)/g, '{\n'), for ch = ; and {
RECURSIVE NewlineAfter(_, _)
NewlineAfter(s, ch) ==
    IF s = "" THEN ""
    ELSE LET rest == Drop(s, 1)
         IN  IF At(s, 1) = ch /\ ~StartsWith(rest, "\n")
             THEN ch \o "\n" \o NewlineAfter(rest, ch)
             ELSE At(s, 1) \o NewlineAfter(rest, ch)

\* replace(/(?!\n)}/g, '\n}'): the lookahead reads the brace itself, so it
\* always holds and every closing brace gets a newline before it
RECURSIVE NewlineBeforeClose(_)
NewlineBeforeClose(s) ==
    IF s = "" THEN ""
    ELSE (IF At(s, 1) = "}" THEN "\n}" ELSE At(s, 1)) \o NewlineBeforeClose(Drop(s, 1))

\* replace(/}(?!\n)(?!else|catch|finally|while)/g, '}\n')
RECURSIVE NewlineAfterClose(_)
NewlineAfterClose(s) ==
    IF s = "" THEN ""
    ELSE LET rest == Drop(s, 1)
         IN  IF /\ At(s, 1) = "}"
                /\ ~StartsWith(rest, "\n")
                /\ \A kw \in {"else", "catch", "finally", "while"} : ~StartsWith(rest, kw)
             THEN "}\n" \o NewlineAfterClose(rest)
             ELSE At(s, 1) \o NewlineAfterClose(rest)

\* replace(/\)\s*{/g, ') {\n')
RECURSIVE FunctionBraces(_)
FunctionBraces(s) ==
    IF s = "" THEN ""
    ELSE LET j == SkipWs(s, 2)
         IN  IF At(s, 1) = ")" /\ j <= Len(s) /\ At(s, j) = "{"
             THEN ") {\n" \o FunctionBraces(Drop(s, j))
             ELSE At(s, 1) \o FunctionBraces(Drop(s, 1))

\* the length of the match of /kw\s*\([^)]+\)\s*(?={)/ at the start of s, 0 if none
KeywordMatchLen(s, kw) ==
    IF ~StartsWith(s, kw) THEN 0
    ELSE LET open == SkipWs(s, Len(kw) + 1)
         IN  IF open > Len(s) \/ At(s, open) # "(" THEN 0
             ELSE LET close == IndexOfAny(s, {")"}, open + 1)
                  IN  IF close > Len(s) \/ close = open + 1 THEN 0
                      ELSE LET brace == SkipWs(s, close + 1)
                           IN  IF brace <= Len(s) /\ At(s, brace) = "{"
                               THEN brace - 1 ELSE 0

\* replace(/if\s*\([^)]+\)\s*(?={)/g, match => `${match}\n`), and the same for "for"
RECURSIVE NewlineAfterCondition(_, _)
NewlineAfterCondition(s, kw) ==
    IF s = "" THEN ""
    ELSE LET n == KeywordMatchLen(s, kw)
         IN  IF n > 0
             THEN Take(s, n) \o "\n" \o NewlineAfterCondition(Drop(s, n), kw)
             ELSE At(s, 1) \o NewlineAfterCondition(Drop(s, 1), kw)

\* the length of the match of /#include\s*<[^>]+>|#define\s+[^\n]+/ at the start of s
DirectiveMatchLen(s) ==
    IF StartsWith(s, "#include")
    THEN LET open == SkipWs(s, 9)
         IN  IF open > Len(s) \/ At(s, open) # "<" THEN 0
             ELSE LET close == IndexOfAny(s, {">"}, open + 1)
                  IN  IF close > Len(s) \/ close = open + 1 THEN 0 ELSE close
    ELSE IF StartsWith(s, "#define")
    THEN LET arg == SkipWs(s, 8)
             \* \s+ is greedy and gives characters back until [^\n]+ has one
             \* to match: the last place up to arg that holds no newline
             starts == {k \in 9..arg : k <= Len(s) /\ At(s, k) # "\n"}
         IN  IF starts = {} THEN 0
             ELSE IndexOfAny(s, {"\n"}, Max(starts)) - 1
    ELSE 0

\* replace(/(#include\s*<[^>]+>|#define\s+[^\n]+)/g, '$1\n')
RECURSIVE NewlineAfterDirective(_)
NewlineAfterDirective(s) ==
    IF s = "" THEN ""
    ELSE LET n == DirectiveMatchLen(s)
         IN  IF n > 0
             THEN Take(s, n) \o "\n" \o NewlineAfterDirective(Drop(s, n))
             ELSE At(s, 1) \o NewlineAfterDirective(Drop(s, 1))

\* replace(/\r\n|\r/g, '\n')
RECURSIVE ConvertLineEndings(_)
ConvertLineEndings(s) ==
    IF s = "" THEN ""
    ELSE IF StartsWith(s, "\r\n") THEN "\n" \o ConvertLineEndings(Drop(s, 2))
    ELSE IF At(s, 1) = "\r" THEN "\n" \o ConvertLineEndings(Drop(s, 1))
    ELSE At(s, 1) \o ConvertLineEndings(Drop(s, 1))

\* the indices of the newlines of s in i..(j - 1)
NewlinesIn(s, i, j) == {k \in i..(j - 1) : At(s, k) = "\n"}

\* replace(/\n\s*\n\s*\n/g, '\n\n'): a match starts at a newline and, both \s*
\* being greedy, ends at the last newline of the whitespace run, which must
\* hold three newlines
RECURSIVE CollapseBlankLines(_)
CollapseBlankLines(s) ==
    IF s = "" THEN ""
    ELSE LET end == SkipWs(s, 1)
             nls == NewlinesIn(s, 1, end)
         IN  IF At(s, 1) = "\n" /\ Cardinality(nls) >= 3
             THEN "\n\n" \o CollapseBlankLines(Drop(s, Max(nls)))
             ELSE At(s, 1) \o CollapseBlankLines(Drop(s, 1))

\* String.prototype.trim
RECURSIVE TrimEnd(_)
TrimEnd(s) == IF s # "" /\ IsWs(At(s, Len(s))) THEN TrimEnd(Take(s, Len(s) - 1)) ELSE s

Trim(s) == TrimEnd(Drop(s, SkipWs(s, 1) - 1))

\* String.prototype.split('\n')
RECURSIVE SplitLines(_, _, _)
SplitLines(s, i, cur) ==
    IF i > Len(s) THEN <<cur>>
    ELSE IF At(s, i) = "\n" THEN <<cur>> \o SplitLines(s, i + 1, "")
    ELSE SplitLines(s, i + 1, cur \o At(s, i))

RECURSIVE JoinLines(_)
JoinLines(ls) ==
    IF ls = <<>> THEN ""
    ELSE IF Len(ls) = 1 THEN ls[1]
    ELSE ls[1] \o "\n" \o JoinLines(Tail(ls))

RECURSIVE Spaces(_)
Spaces(n) == IF n <= 0 THEN "" ELSE " " \o Spaces(n - 1)

indentSize == 4

\* the callback of lines.map in formatCode, threading indentLevel
RECURSIVE IndentLines(_, _)
IndentLines(ls, indentLevel) ==
    IF ls = <<>> THEN <<>>
    ELSE LET trimmedLine == Trim(Head(ls))
             closes == \/ StartsWith(trimmedLine, "}")
                       \/ StartsWith(trimmedLine, "]")
                       \/ StartsWith(trimmedLine, ")")
             l1 == IF closes /\ indentLevel > 0 THEN indentLevel - 1 ELSE indentLevel
             l2 == IF StartsWith(trimmedLine, "else") /\ l1 > 0 THEN l1 - 1 ELSE l1
             opens == \/ EndsWith(trimmedLine, "{")
                      \/ EndsWith(trimmedLine, "[")
                      \/ (Includes(trimmedLine, "{") /\ ~Includes(trimmedLine, "}"))
             l3 == IF opens THEN l2 + 1 ELSE l2
         IN  <<Spaces(l2 * indentSize) \o trimmedLine>> \o IndentLines(Tail(ls), l3)

formatCode(content) == JoinLines(IndentLines(SplitLines(content, 1, ""), 0))

\* normalizeLineEndings on a non-Windows host (process.platform # 'win32')
normalizeLineEndings(content) ==
    LET s1 == NewlineAfter(content, ";")
        s2 == NewlineAfter(s1, "{")
        s3 == NewlineBeforeClose(s2)
        s4 == NewlineAfterClose(s3)
        s5 == FunctionBraces(s4)
        s6 == NewlineAfterCondition(s5, "if")
        s7 == NewlineAfterCondition(s6, "for")
        s8 == NewlineAfterDirective(s7)
        s9 == ConvertLineEndings(s8)
        s10 == CollapseBlankLines(s9)
        s11 == formatCode(s10)
    IN  IF EndsWith(s11, "\n") THEN s11 ELSE s11 \o "\n"

(***************************************************************************)
(* State.                                                                  *)
(***************************************************************************)
VARIABLES
    workspaceRoot,  \* FileManager.workspaceRoot, "" when no folder is open
    files,          \* the disk: path of every file |-> its content
    dirs,           \* the disk: the paths of the directories
    readonly,       \* the files whose permissions disallow writing
    cs,             \* the FileManager calls, one record per caller
    snap,           \* the disk when the running call started
    calls,          \* the calls started so far
    query,          \* getFileSuggestions: the query
    pending,        \* getAllFiles: the directories being listed, innermost first,
                    \*   each with the entries its loop has still to visit
    listed,         \* getAllFiles: the relative paths pushed so far
    suggestions,    \* getFileSuggestions: the list returned
    sgError,        \* getFileSuggestions: its catch block ran
    sgPc,           \* getFileSuggestions: "idle" | "listing" | "done"
    responseText,   \* askAI: the text of the model's response
    blocks,         \* askAI: the blocks returned for it
    formatted,      \* the 'ask' handler: the blocks as markdown
    reparsed,       \* the blocks of the markdown, segmented again
    segPc,          \* "response" | "segmented" | "formatted" | "reparsed"
    conversationHistory,    \* askAI: the messages pushed, [role, content]
    lastGeneratedContent,   \* the extension: file name |-> content generated for it
    chatPanel,      \* the extension: the chat panel exists (is not undefined)
    outbox,         \* the messages posted and not yet taken by the webview,
                    \*   [command, text, ask]
    chat,           \* the message handler: its position and its local variables
    asked,          \* the 'ask' messages received so far
    clears,         \* the calls of clearConversationHistory so far
    gen,            \* file name |-> the last generation that succeeded for it
    applied,        \* the last /apply: its argument and the content it read
    dropped,        \* the 'ask' messages with a post lost as chatPanel was undefined
    waits           \* the external calls the handler has awaited for the message it
                    \*   is handling, the one it is waiting for included; 0 when idle

fmVars == <<workspaceRoot, files, dirs, readonly, cs, snap, calls>>

sgVars == <<query, pending, listed, suggestions, sgError, sgPc>>

segVars == <<responseText, blocks, formatted, reparsed, segPc>>

chatVars == <<conversationHistory, lastGeneratedContent, chatPanel, outbox, chat,
              asked, clears, gen, applied, dropped, waits>>

\* the variables that the file manager's methods leave alone
nonFmVars == <<sgVars, segVars, chatVars>>

\* the variables that getFileSuggestions leaves alone
nonSgVars == <<fmVars, segVars, chatVars>>

\* the variables that the segmentation leaves alone
nonSegVars == <<fmVars, sgVars, chatVars>>

vars == <<workspaceRoot, files, dirs, readonly, cs, snap, calls,
          query, pending, listed, suggestions, sgError, sgPc,
          responseText, blocks, formatted, reparsed, segPc,
          conversationHistory, lastGeneratedContent, chatPanel, outbox, chat,
          asked, clears, gen, applied, dropped, waits>>

(***************************************************************************)
(* The disk and the I/O calls of the host (fs.promises, vscode.workspace). *)
(* An I/O call ends "ok", or fails leaving its target as it was ("fail"),   *)
(* or fails leaving its target truncated ("torn").                          *)
(***************************************************************************)
\* a directory and all the directories above it
Ancestors(dir) ==
    LET comps == ResolveComps(dir)
    IN  {"/" \o JoinSlash(SubSeq(comps, 1, k)) : k \in 0..Len(comps)}

IsFile(fl, p) == ~EndsWith(p, "/") /\ p \in DOMAIN fl

IsDir(ds, p) == PathResolve(p) \in ds

\* fs.existsSync
existsSync(fl, ds, p) == IsFile(fl, p) \/ IsDir(ds, p)

Put(fl, p, c) == [q \in DOMAIN fl \cup {p} |-> IF q = p THEN c ELSE fl[q]]

Remove(fl, p) == [q \in DOMAIN fl \ {p} |-> fl[q]]

\* fs.promises.mkdir(dir, { recursive: true }) can succeed
CanMkdir(fl, dir) == \A a \in Ancestors(dir) : a \notin DOMAIN fl

\* a file can be written at p
CanWrite(fl, ds, ro, p) ==
    /\ ~EndsWith(p, "/")
    /\ p \notin ds
    /\ p \notin ro
    /\ PathDirname(p) \in ds

\* fs.promises.copyFile(src, dst) can succeed
CanCopy(fl, ds, ro, src, dst) == IsFile(fl, src) /\ CanWrite(fl, ds, ro, dst)

\* the outcomes of an I/O call that can succeed (can) for a call that has
\* had nFaults failures injected; torn only where the call writes
Outcomes(can, nFaults, writes) ==
    IF ~can THEN {"fail"}
    ELSE {"ok"} \cup (IF nFaults < MaxFaults
                      THEN {"fail"} \cup (IF writes THEN {"torn"} ELSE {})
                      ELSE {})

\* the files after a write of content c at p
AfterWrite(fl, p, c, outcome) ==
    CASE outcome = "ok" -> Put(fl, p, c)
      [] outcome = "torn" -> Put(fl, p, "")
      [] OTHER -> fl

AfterUnlink(fl, p, outcome) == IF outcome = "ok" THEN Remove(fl, p) ELSE fl

AfterMkdir(ds, dir, outcome) == IF outcome = "ok" THEN ds \cup Ancestors(dir) ELSE ds

\* an injected failure counts, a failure the disk forces does not
Faults(c, can, outcome) == IF can /\ outcome # "ok" THEN c.faults + 1 ELSE c.faults

IoEntry(io, p, outcome) == [io |-> io, path |-> p, res |-> outcome]

(***************************************************************************)
(* FileManager calls.  A call record holds the arguments, the position in  *)
(* the method (pc, one label per await), the locals, the result ("ok" or    *)
(* the error thrown) and the I/O calls made so far (log).                   *)
(***************************************************************************)
Procs == {1, 2}

IdleCall ==
    [pc |-> "idle", op |-> "none", filePath |-> "", content |-> "", fullPath |-> "",
     nested |-> FALSE, result |-> "none", faults |-> 0, log |-> <<>>]

Finish(c, res) == [c EXCEPT !.pc = "done", !.result = res]

Goto(c, label) == [c EXCEPT !.pc = label]

Logged(c, can, io, p, outcome) ==
    [c EXCEPT !.log = Append(@, IoEntry(io, p, outcome)),
              !.faults = Faults(c, can, outcome)]

\* a faulty variant: one backup file next to the workspace root
backupPath_NextToRoot(fullPath) == workspaceRootPath \o ".bak"

backupPath(fullPath) == fullPath \o ".bak"

\* validatePath, path.join and validateFileOperation, as the three methods
\* start: the error thrown ("none" if none) and fullPath
Validation(root, filePath, hasContent, content) ==
    LET vp == validatePath(filePath)
    IN  IF vp.err # "none" THEN [err |-> vp.err, fullPath |-> ""]
        \* path.join(undefined, ...) throws
        ELSE IF root = "" THEN [err |-> "NoWorkspace", fullPath |-> ""]
        ELSE LET fp == PathJoin(root, vp.path)
             IN  [err |-> validateFileOperation(root, fp, hasContent, content),
                  fullPath |-> fp]

\* the first lines of createFile, updateFile and deleteFile, to the first await
Validate(i, op, next) ==
    /\ cs[i].pc = op \o "_validate"
    /\ LET c == cs[i]
           v == Validation(workspaceRoot, c.filePath, op # "delete", c.content)
       IN  cs' = [cs EXCEPT ![i] =
                     IF v.err # "none" THEN Finish(c, v.err)
                     ELSE [c EXCEPT !.pc = next, !.fullPath = v.fullPath]]
    /\ UNCHANGED <<workspaceRoot, files, dirs, readonly, snap, calls>>
    /\ UNCHANGED nonFmVars

(* createFile *)
CreateValidate(i) == Validate(i, "create", "create_mkdir")

CreateMkdir(i) ==
    /\ cs[i].pc = "create_mkdir"
    /\ LET c == cs[i]
           directory == PathDirname(c.fullPath)
           can == CanMkdir(files, directory)
       IN  \E outcome \in Outcomes(can, c.faults, FALSE) :
               /\ dirs' = AfterMkdir(dirs, directory, outcome)
               /\ cs' = [cs EXCEPT ![i] =
                             LET d == Logged(c, can, "mkdir", directory, outcome)
                             IN  IF outcome = "ok" THEN Goto(d, "create_write")
                                 ELSE Finish(d, "IOError")]
    /\ UNCHANGED <<workspaceRoot, files, readonly, snap, calls>>
    /\ UNCHANGED nonFmVars

CreateWrite(i) ==
    /\ cs[i].pc = "create_write"
    /\ LET c == cs[i]
           processedContent == normalizeLineEndings(c.content)
           can == CanWrite(files, dirs, readonly, c.fullPath)
       IN  \E outcome \in Outcomes(can, c.faults, TRUE) :
               /\ files' = AfterWrite(files, c.fullPath, processedContent, outcome)
               /\ cs' = [cs EXCEPT ![i] =
                             LET d == Logged(c, can, "writeFile", c.fullPath, outcome)
                             IN  IF outcome = "ok" THEN Goto(d, "create_open")
                                 ELSE Finish(d, "IOError")]
    /\ UNCHANGED <<workspaceRoot, dirs, readonly, snap, calls>>
    /\ UNCHANGED nonFmVars

\* openTextDocument and showTextDocument
CreateOpen(i) ==
    /\ cs[i].pc = "create_open"
    /\ LET c == cs[i]
           can == IsFile(files, c.fullPath)
       IN  \E outcome \in Outcomes(can, c.faults, FALSE) :
               cs' = [cs EXCEPT ![i] =
                         LET d == Logged(c, can, "open", c.fullPath, outcome)
                         IN  Finish(d, IF outcome = "ok" THEN "ok" ELSE "IOError")]
    /\ UNCHANGED <<workspaceRoot, files, dirs, readonly, snap, calls>>
    /\ UNCHANGED nonFmVars

(* updateFile *)
UpdateValidate(i) == Validate(i, "update", "update_exists")

\* existsSync, then createFile(filePath, content) or fs.promises.access
\* a faulty variant: a missing target is not handed to createFile
UpdateExists_NoDelegation(i) ==
    /\ cs[i].pc = "update_exists"
    /\ cs' = [cs EXCEPT ![i] =
                  IF cs[i].fullPath \in readonly THEN Finish(cs[i], "NotWritable")
                  ELSE Goto(cs[i], "update_backup")]
    /\ UNCHANGED <<workspaceRoot, files, dirs, readonly, snap, calls>>
    /\ UNCHANGED nonFmVars

UpdateExists(i) ==
    /\ cs[i].pc = "update_exists"
    /\ LET c == cs[i]
       IN  cs' = [cs EXCEPT ![i] =
                     IF ~existsSync(files, dirs, c.fullPath)
                     THEN [c EXCEPT !.pc = "create_validate", !.nested = TRUE]
                     ELSE IF c.fullPath \in readonly THEN Finish(c, "NotWritable")
                     ELSE Goto(c, "update_backup")]
    /\ UNCHANGED <<workspaceRoot, files, dirs, readonly, snap, calls>>
    /\ UNCHANGED nonFmVars

\* copyFile(src, dst) by a call at label at; ok leads to onOk, a failure to onFail
\* (a label, or "throw" to leave the method with the error)
Copy(i, at, src, dst, onOk, onFail) ==
    /\ cs[i].pc = at
    /\ LET c == cs[i]
           can == CanCopy(files, dirs, readonly, src, dst)
       IN  \E outcome \in Outcomes(can, c.faults, TRUE) :
               /\ files' = AfterWrite(files, dst, IF can THEN files[src] ELSE "", outcome)
               /\ cs' = [cs EXCEPT ![i] =
                             LET d == Logged(c, can, "copyFile", dst, outcome)
                                 to == IF outcome = "ok" THEN onOk ELSE onFail
                             IN  IF to = "throw" THEN Finish(d, "IOError") ELSE Goto(d, to)]
    /\ UNCHANGED <<workspaceRoot, dirs, readonly, snap, calls>>
    /\ UNCHANGED nonFmVars

\* unlink(p) by a call at label at
Unlink(i, at, p, onOk, onFail) ==
    /\ cs[i].pc = at
    /\ LET c == cs[i]
           can == IsFile(files, p)
       IN  \E outcome \in Outcomes(can, c.faults, FALSE) :
               /\ files' = AfterUnlink(files, p, outcome)
               /\ cs' = [cs EXCEPT ![i] =
                             LET d == Logged(c, can, "unlink", p, outcome)
                                 to == IF outcome = "ok" THEN onOk ELSE onFail
                             IN  IF to \in {"throw", "return"}
                                 THEN Finish(d, IF to = "return" THEN "ok" ELSE "IOError")
                                 ELSE Goto(d, to)]
    /\ UNCHANGED <<workspaceRoot, dirs, readonly, snap, calls>>
    /\ UNCHANGED nonFmVars

\* Create backup: the copy is outside the inner try
UpdateBackup(i) ==
    Copy(i, "update_backup", cs[i].fullPath, backupPath(cs[i].fullPath),
         "update_write", "throw")

UpdateWrite(i) ==
    /\ cs[i].pc = "update_write"
    /\ LET c == cs[i]
           processedContent == normalizeLineEndings(c.content)
           can == CanWrite(files, dirs, readonly, c.fullPath)
       IN  \E outcome \in Outcomes(can, c.faults, TRUE) :
               /\ files' = AfterWrite(files, c.fullPath, processedContent, outcome)
               /\ cs' = [cs EXCEPT ![i] =
                             LET d == Logged(c, can, "writeFile", c.fullPath, outcome)
                             IN  Goto(d, IF outcome = "ok" THEN "update_unlink"
                                         ELSE "update_restore")]
    /\ UNCHANGED <<workspaceRoot, dirs, readonly, snap, calls>>
    /\ UNCHANGED nonFmVars

\* Remove backup on success: inside the try, so its failure is caught too
UpdateUnlink(i) ==
    Unlink(i, "update_unlink", backupPath(cs[i].fullPath), "update_show", "update_restore")

\* Restore from backup if update fails
\* a faulty variant: the catch block does not copy the backup back
UpdateRestore_Skipped(i) ==
    /\ cs[i].pc = "update_restore"
    /\ cs' = [cs EXCEPT ![i] = Goto(cs[i], "update_restore_unlink")]
    /\ UNCHANGED <<workspaceRoot, files, dirs, readonly, snap, calls>>
    /\ UNCHANGED nonFmVars

UpdateRestore(i) ==
    Copy(i, "update_restore", backupPath(cs[i].fullPath), cs[i].fullPath,
         "update_restore_unlink", "throw")

\* the catch block's unlink, then throw error
UpdateRestoreUnlink(i) ==
    Unlink(i, "update_restore_unlink", backupPath(cs[i].fullPath), "throw", "throw")

\* Show the updated file
UpdateShow(i) ==
    /\ cs[i].pc = "update_show"
    /\ LET c == cs[i]
           can == IsFile(files, c.fullPath)
       IN  \E outcome \in Outcomes(can, c.faults, FALSE) :
               cs' = [cs EXCEPT ![i] =
                         LET d == Logged(c, can, "open", c.fullPath, outcome)
                         IN  Finish(d, IF outcome = "ok" THEN "ok" ELSE "IOError")]
    /\ UNCHANGED <<workspaceRoot, files, dirs, readonly, snap, calls>>
    /\ UNCHANGED nonFmVars

(* deleteFile *)
DeleteValidate(i) == Validate(i, "delete", "delete_exists")

DeleteExists(i) ==
    /\ cs[i].pc = "delete_exists"
    /\ LET c == cs[i]
       IN  cs' = [cs EXCEPT ![i] =
                     IF ~existsSync(files, dirs, c.fullPath) THEN Finish(c, "NotFound")
                     ELSE IF c.fullPath \in readonly THEN Finish(c, "NotWritable")
                     ELSE Goto(c, "delete_backup")]
    /\ UNCHANGED <<workspaceRoot, files, dirs, readonly, snap, calls>>
    /\ UNCHANGED nonFmVars

DeleteBackup(i) ==
    Copy(i, "delete_backup", cs[i].fullPath, backupPath(cs[i].fullPath),
         "delete_unlink", "throw")

DeleteUnlink(i) ==
    Unlink(i, "delete_unlink", cs[i].fullPath, "delete_unlink_backup", "delete_restore")

\* Restore from backup if deletion fails, then throw error
DeleteRestore(i) ==
    Copy(i, "delete_restore", backupPath(cs[i].fullPath), cs[i].fullPath, "throw", "throw")

\* Remove backup on successful deletion
\* a faulty variant: the backup is left behind after a successful deletion
DeleteUnlinkBackup_Kept(i) ==
    /\ cs[i].pc = "delete_unlink_backup"
    /\ cs' = [cs EXCEPT ![i] = Finish(cs[i], "ok")]
    /\ UNCHANGED <<workspaceRoot, files, dirs, readonly, snap, calls>>
    /\ UNCHANGED nonFmVars

DeleteUnlinkBackup(i) ==
    Unlink(i, "delete_unlink_backup", backupPath(cs[i].fullPath), "return", "throw")

(***************************************************************************)
(* The callers' inputs.                                                    *)
(***************************************************************************)
PathAlphabet == {".", "/", "a"}

NamedPaths ==
    {"../../etc/passwd", "/etc/passwd", "a/../../a", "d/../../../etc/passwd",
     ".git/config", ".gitignore", ".vscode/s.json", "node_modules/m", "d/.git",
     "a.bak", "ro", "d/b.js", "n/e/w.js", "a:b", "d/", "..\\..\\a", "..\\a", "a\\..\\a",
     "..a/b"}

PathInputs == StringsUpTo(PathAlphabet, MaxPathLen) \cup NamedPaths

\* the paths of the calls after the first one of a behaviour
FollowUpPaths == {"a", "a.bak"}

\* "~a" is exactly maxFileSize bytes long, "~ab" one byte longer
ContentInputs == {"", "x=1;y", "~a", "~ab"}

FollowUpContents == {"if(a){b}"}

Operations == {"create", "update", "delete"}

(* applyCodeBlock *)
\* detectFileExtension(code)
detectFileExtension(code) ==
    IF Includes(code, "function") \/ Includes(code, "const") \/ Includes(code, "let")
    THEN ".js"
    ELSE IF Includes(code, "interface") \/ Includes(code, "type ") \/ Includes(code, "namespace")
    THEN ".ts"
    ELSE IF Includes(code, "class") /\ Includes(code, "public") THEN ".java"
    ELSE IF Includes(code, "#include") THEN ".cpp"
    ELSE ".txt"

\* Date.now(), as decimal digits
ClockValues == {"17", "18"}

\* the code and the filePath arguments of applyCodeBlock; "" is no filePath
ApplyCodes == {"", " \n", "let x", "y"}

ApplyPaths == {"", "a", "nw"}

\* a caller starts applyCodeBlock(code, filePath)
ApplyStart(i) ==
    /\ calls < MaxCalls
    /\ \A j \in Procs : cs[j].pc \in {"idle", "done"}
    /\ \E code \in ApplyCodes, p \in ApplyPaths :
           cs' = [cs EXCEPT ![i] =
                     [IdleCall EXCEPT !.pc = "apply_check", !.op = "apply", !.filePath = p,
                                      !.content = code]]
    /\ snap' = [files |-> files, dirs |-> dirs]
    /\ calls' = calls + 1
    /\ UNCHANGED <<workspaceRoot, files, dirs, readonly>>
    /\ UNCHANGED nonFmVars

\* a faulty variant: blank code is handed on like any other
ApplyCheck_BlankAccepted(i) ==
    /\ cs[i].pc = "apply_check"
    /\ LET c == cs[i]
       IN  \E now \in ClockValues :
               cs' = [cs EXCEPT ![i] =
                         IF c.filePath = ""
                         THEN [c EXCEPT !.pc = "create_validate",
                                        !.filePath = "generated_" \o now
                                                         \o detectFileExtension(c.content)]
                         ELSE Goto(c, "update_validate")]
    /\ UNCHANGED <<workspaceRoot, files, dirs, readonly, snap, calls>>
    /\ UNCHANGED nonFmVars

\* applyCodeBlock to its first await: the blank test, then createFile under a
\* generated name or updateFile; their errors are rethrown to the caller
ApplyCheck(i) ==
    /\ cs[i].pc = "apply_check"
    /\ LET c == cs[i]
       IN  \E now \in ClockValues :
               cs' = [cs EXCEPT ![i] =
                         IF Trim(c.content) = "" THEN Finish(c, "EmptyContent")
                         ELSE IF c.filePath = ""
                         THEN [c EXCEPT !.pc = "create_validate",
                                        !.filePath = "generated_" \o now
                                                         \o detectFileExtension(c.content)]
                         ELSE Goto(c, "update_validate")]
    /\ UNCHANGED <<workspaceRoot, files, dirs, readonly, snap, calls>>
    /\ UNCHANGED nonFmVars

\* a caller starts createFile, updateFile or deleteFile; calls do not overlap
Start(i) ==
    /\ calls < MaxCalls
    /\ \A j \in Procs : cs[j].pc \in {"idle", "done"}
    /\ \E op \in Operations :
       \E p \in (IF calls = 0 THEN PathInputs ELSE FollowUpPaths) :
       \E text \in (IF calls = 0 THEN ContentInputs ELSE FollowUpContents) :
           cs' = [cs EXCEPT ![i] =
                     [IdleCall EXCEPT !.pc = op \o "_validate", !.op = op, !.filePath = p,
                                      !.content = IF op = "delete" THEN "" ELSE text]]
    /\ snap' = [files |-> files, dirs |-> dirs]
    /\ calls' = calls + 1
    /\ UNCHANGED <<workspaceRoot, files, dirs, readonly>>
    /\ UNCHANGED nonFmVars

(***************************************************************************)
(* The file manager: one caller, its calls one after the other.            *)
(***************************************************************************)
InitFiles ==
    [p \in {"/w/a", "/w/ro", "/w/d/b.js", "/w/.git/config", "/w/node_modules/m", "/etc/passwd"}
        |-> CASE p = "/w/a" -> "old;\n"
              [] p = "/w/ro" -> "ro\n"
              [] p = "/w/d/b.js" -> "b();\n"
              [] p = "/w/.git/config" -> "[core]\n"
              [] p = "/w/node_modules/m" -> "m\n"
              [] OTHER -> "root\n"]

InitDirs == {"/", "/etc", "/w", "/w/d", "/w/.git", "/w/node_modules"}

\* the message handler before a message: its local variables
IdleChat ==
    [pc |-> "idle", via |-> "", command |-> "", fileName |-> "", prompt |-> "",
     existingContent |-> "", lastContent |-> "", response |-> <<>>, index |-> 0,
     error |-> "", aiOp |-> "", aiFile |-> "", aiContent |-> "", arg |-> "",
     content |-> "", ask |-> 0]

\* the chat is not in use
ChatIdle ==
    /\ conversationHistory = <<>>
    /\ lastGeneratedContent = <<>>
    /\ chatPanel = FALSE
    /\ outbox = <<>>
    /\ chat = IdleChat
    /\ asked = 0
    /\ clears = 0
    /\ gen = <<>>
    /\ applied = [arg |-> "", content |-> ""]
    /\ dropped = {}
    /\ waits = 0

SgIdle ==
    /\ query = ""
    /\ pending = <<>>
    /\ listed = <<>>
    /\ suggestions = <<>>
    /\ sgError = FALSE
    /\ sgPc = "idle"
    /\ responseText = ""
    /\ blocks = <<>>
    /\ formatted = ""
    /\ reparsed = <<>>
    /\ segPc = "idle"

Init ==
    /\ workspaceRoot \in {workspaceRootPath, ""}
    /\ files \in {InitFiles, Put(InitFiles, "/w/a.bak", "keep\n")}
    /\ dirs = InitDirs
    /\ readonly = {"/w/ro"}
    /\ cs = [i \in Procs |-> IdleCall]
    /\ snap = [files |-> files, dirs |-> dirs]
    /\ calls = 0
    /\ SgIdle
    /\ ChatIdle

Step(i) ==
    \/ Start(i)
    \/ CreateValidate(i)
    \/ CreateMkdir(i)
    \/ CreateWrite(i)
    \/ CreateOpen(i)
    \/ UpdateValidate(i)
    \/ UpdateExists(i)
    \/ UpdateBackup(i)
    \/ UpdateWrite(i)
    \/ UpdateUnlink(i)
    \/ UpdateRestore(i)
    \/ UpdateRestoreUnlink(i)
    \/ UpdateShow(i)
    \/ DeleteValidate(i)
    \/ DeleteExists(i)
    \/ DeleteBackup(i)
    \/ DeleteUnlink(i)
    \/ DeleteRestore(i)
    \/ DeleteUnlinkBackup(i)

Next == Step(1)

Spec == Init /\ [][Next]_vars

(***************************************************************************)
(* applyCodeBlock: one caller, its calls one after the other; the calls    *)
(* run createFile and updateFile.                                          *)
(***************************************************************************)
ApplyNext ==
    \/ ApplyStart(1)
    \/ ApplyCheck(1)
    \/ CreateValidate(1)
    \/ CreateMkdir(1)
    \/ CreateWrite(1)
    \/ CreateOpen(1)
    \/ UpdateValidate(1)
    \/ UpdateExists(1)
    \/ UpdateBackup(1)
    \/ UpdateWrite(1)
    \/ UpdateUnlink(1)
    \/ UpdateRestore(1)
    \/ UpdateRestoreUnlink(1)
    \/ UpdateShow(1)

SpecApply == Init /\ [][ApplyNext]_vars

(***************************************************************************)
(* createFile, updateFile, deleteFile and applyCodeBlock on arbitrary path *)
(* strings: one caller, its calls one after the other.                     *)
(***************************************************************************)
\* a caller starts applyCodeBlock(code, filePath) on a path of the callers'
\* inputs; "" is no filePath
ApplyStartAnywhere(i) ==
    /\ calls < MaxCalls
    /\ \A j \in Procs : cs[j].pc \in {"idle", "done"}
    /\ \E p \in (IF calls = 0 THEN NamedPaths \cup {"", ".", ".."} ELSE FollowUpPaths) :
           cs' = [cs EXCEPT ![i] =
                     [IdleCall EXCEPT !.pc = "apply_check", !.op = "apply", !.filePath = p,
                                      !.content = "let x"]]
    /\ snap' = [files |-> files, dirs |-> dirs]
    /\ calls' = calls + 1
    /\ UNCHANGED <<workspaceRoot, files, dirs, readonly>>
    /\ UNCHANGED nonFmVars

AnywhereNext ==
    \/ Step(1)
    \/ ApplyStartAnywhere(1)
    \/ ApplyCheck(1)

SpecAnywhere == Init /\ [][AnywhereNext]_vars

(***************************************************************************)
(* createFile and updateFile on contents of every shape: one caller, its   *)
(* calls one after the other.                                              *)
(***************************************************************************)
MaxContentLen == 4

ContentAlphabet == {"a", "\n", "\r", " ", ";"}

WrittenContents == StringsUpTo(ContentAlphabet, MaxContentLen)

\* the existing file a and the missing file nw
WrittenPaths == {"a", "nw"}

\* a caller starts createFile or updateFile
WriteStart(i) ==
    /\ calls < MaxCalls
    /\ \A j \in Procs : cs[j].pc \in {"idle", "done"}
    /\ \E op \in {"create", "update"}, p \in WrittenPaths :
       \E text \in (IF calls = 0 THEN WrittenContents ELSE FollowUpContents) :
           cs' = [cs EXCEPT ![i] =
                     [IdleCall EXCEPT !.pc = op \o "_validate", !.op = op, !.filePath = p,
                                      !.content = text]]
    /\ snap' = [files |-> files, dirs |-> dirs]
    /\ calls' = calls + 1
    /\ UNCHANGED <<workspaceRoot, files, dirs, readonly>>
    /\ UNCHANGED nonFmVars

InitWrite ==
    /\ workspaceRoot = workspaceRootPath
    /\ files = InitFiles
    /\ dirs = InitDirs
    /\ readonly = {"/w/ro"}
    /\ cs = [i \in Procs |-> IdleCall]
    /\ snap = [files |-> files, dirs |-> dirs]
    /\ calls = 0
    /\ SgIdle
    /\ ChatIdle

WriteNext ==
    \/ WriteStart(1)
    \/ CreateValidate(1)
    \/ CreateMkdir(1)
    \/ CreateWrite(1)
    \/ CreateOpen(1)
    \/ UpdateValidate(1)
    \/ UpdateExists(1)
    \/ UpdateBackup(1)
    \/ UpdateWrite(1)
    \/ UpdateUnlink(1)
    \/ UpdateRestore(1)
    \/ UpdateRestoreUnlink(1)
    \/ UpdateShow(1)

SpecWrite == InitWrite /\ [][WriteNext]_vars

(***************************************************************************)
(* Two callers of updateFile on the same existing file, their calls        *)
(* interleaved at the awaits; no I/O call fails on its own.                *)
(***************************************************************************)
RaceContents == {"x=1;y", "if(a){b}"}

\* caller i starts updateFile('a', content); no failure is injected into
\* the call
RaceStart(i) ==
    /\ calls < MaxCalls
    /\ cs[i].pc = "idle"
    /\ \E text \in RaceContents :
           cs' = [cs EXCEPT ![i] =
                     [IdleCall EXCEPT !.pc = "update_validate", !.op = "update",
                                      !.filePath = "a", !.content = text,
                                      !.faults = MaxFaults]]
    /\ calls' = calls + 1
    /\ UNCHANGED <<workspaceRoot, files, dirs, readonly, snap>>
    /\ UNCHANGED nonFmVars

\* a step of caller i: the file exists all along, so updateFile never hands
\* over to createFile; and a call whose unlink of the backup fails finds no
\* backup to copy back, so the unlink of its catch block is never reached
RaceStep(i) ==
    \/ RaceStart(i)
    \/ UpdateValidate(i)
    \/ UpdateExists(i)
    \/ UpdateBackup(i)
    \/ UpdateWrite(i)
    \/ UpdateUnlink(i)
    \/ UpdateRestore(i)
    \/ UpdateShow(i)

RaceNext == \E i \in Procs : RaceStep(i)

SpecRace == InitWrite /\ [][RaceNext]_vars

(***************************************************************************)
(* Vocabulary of the properties.                                           *)
(***************************************************************************)
Done(i) == cs[i].pc = "done"

Failed(c) == c.result \notin {"none", "ok"}

\* the disk is as it was when the call started
NoMutation == files = snap.files /\ dirs = snap.dirs

InWorkspace(p) == p = workspaceRootPath \/ StartsWith(p, workspaceRootPath \o "/")

\* file p is now what it was when the call started (absent, or the same content)
SameFile(p) ==
    /\ p \in DOMAIN files <=> p \in DOMAIN snap.files
    /\ p \in DOMAIN files => files[p] = snap.files[p]

\* nothing outside the workspace root has changed since the call started
OutsideUnchanged ==
    /\ \A p \in DOMAIN files \cup DOMAIN snap.files : ~InWorkspace(p) => SameFile(p)
    /\ \A d \in dirs \cup snap.dirs : ~InWorkspace(d) => (d \in dirs <=> d \in snap.dirs)

\* the entries of a call's log for I/O call io
Entries(c, io) == {k \in 1..Len(c.log) : c.log[k].io = io}

\* the path has a ".." component
HasTraversal(p) == \E k \in 1..Len(Split(p)) : Split(p)[k] = ".."

\* p without its leading "../" sequences
RECURSIVE WithoutLeadingDotDot(_)
WithoutLeadingDotDot(p) ==
    IF StartsWith(p, "../") THEN WithoutLeadingDotDot(Drop(p, 3)) ELSE p

\* a relative path of ordinary names: nothing to normalize or sanitize in it
PlainRelative(p) ==
    /\ p # ""
    /\ \A k \in 1..Len(Split(p)) : Split(p)[k] \notin {"", ".", ".."}
    /\ \A k \in 1..Len(p) : At(p, k) \notin forbiddenChars \cup {"\\"}
    /\ ~StartsWith(p, "..")

UpdatesExisting(c) ==
    /\ c.op = "update"
    /\ ~c.nested
    /\ c.fullPath # ""
    /\ IsFile(snap.files, c.fullPath)
    /\ c.log # <<>>

\* the call made I/O call io on path p and it ended res
Made(c, io, p, res) ==
    \E k \in Entries(c, io) : c.log[k].path = p /\ c.log[k].res = res

(***************************************************************************)
(* C2: updateFile on an existing writable file: if the write of the new    *)
(* content fails after the backup was taken (the write being the I/O call   *)
(* that fails), then when updateFile finishes the file holds exactly its    *)
(* pre-call content, restored from the .bak copy, and the failure is        *)
(* propagated to the caller.                                                *)
(***************************************************************************)
C2_WriteFailureRolledBack ==
    \A i \in Procs :
        LET c == cs[i]
        IN  (/\ Done(i)
             /\ UpdatesExisting(c)
             /\ c.faults = 1
             /\ \E k \in Entries(c, "writeFile") : c.log[k].res # "ok")
                => /\ Failed(c)
                   /\ IsFile(files, c.fullPath)
                   /\ files[c.fullPath] = snap.files[c.fullPath]
                   /\ Made(c, "copyFile", c.fullPath, "ok")

\* the write left the file truncated, and updateFile has ended
C2_Witness ==
    \E i \in Procs :
        /\ Done(i)
        /\ UpdatesExisting(cs[i])
        /\ cs[i].faults = 1
        /\ Made(cs[i], "writeFile", cs[i].fullPath, "torn")
        /\ snap.files[cs[i].fullPath] # ""

(***************************************************************************)
(* C3: updateFile is atomic from the caller's perspective, whichever step  *)
(* fails (backup copy, write, backup removal, restore, opening the file for *)
(* display): when it returns successfully the file holds exactly the        *)
(* normalized new content, when it reports failure the file holds exactly   *)
(* its original pre-call content.  Stated for calls in which at most one    *)
(* I/O call fails.                                                          *)
(***************************************************************************)
C3_UpdateAtomic ==
    \A i \in Procs :
        LET c == cs[i]
        IN  (Done(i) /\ UpdatesExisting(c) /\ c.faults <= 1)
                => /\ IsFile(files, c.fullPath)
                   /\ c.result = "ok" => files[c.fullPath] = normalizeLineEndings(c.content)
                   /\ Failed(c) => files[c.fullPath] = snap.files[c.fullPath]

(***************************************************************************)
(* C4: for every content whose UTF-8 byte length exceeds the 50 MiB        *)
(* ceiling, createFile fails and creates neither the file nor any           *)
(* intermediate directory: the size check happens before any I/O call.  The *)
(* failure is ContentTooLarge (for a path that the checks made before the   *)
(* size check accept: an ordinary relative path, a workspace being open),   *)
(* and a content of exactly the ceiling is not refused as too large.        *)
(***************************************************************************)
C4_TooLargeRefusedBeforeMutation ==
    \A i \in Procs :
        LET c == cs[i]
        IN  (Done(i) /\ c.op = "create")
                => /\ ByteLength(c.content) > maxFileSize =>
                          /\ Failed(c)
                          /\ NoMutation
                          /\ c.log = <<>>
                          /\ c.result \in {"ContentTooLarge", "InvalidPath", "NoWorkspace",
                                           "OutsideWorkspace"}
                          /\ (workspaceRoot # "" /\ PlainRelative(c.filePath))
                                 => c.result = "ContentTooLarge"
                   /\ ByteLength(c.content) <= maxFileSize => c.result # "ContentTooLarge"

\* createFile("n/e/w.js", <one byte more than the ceiling>) has failed
C4_Witness ==
    \E i \in Procs :
        /\ Done(i)
        /\ cs[i].op = "create"
        /\ cs[i].filePath = "n/e/w.js"
        /\ ByteLength(cs[i].content) = maxFileSize + 1
        /\ cs[i].result = "ContentTooLarge"
        /\ "/w/n" \notin dirs

(***************************************************************************)
(* C5: after createFile terminates, either it returned successfully and    *)
(* the target file exists with exactly the normalized content, or it        *)
(* reported failure and no new or partial file was left at the target path  *)
(* (a failure after the write, when opening the file for display, leaves no *)
(* file behind).  Stated for calls whose write did not tear the file.       *)
(***************************************************************************)
C5_CreateAllOrNothing ==
    \A i \in Procs :
        LET c == cs[i]
        IN  (/\ Done(i)
             /\ c.op = "create"
             /\ \A k \in 1..Len(c.log) : c.log[k].res # "torn")
                => /\ c.result = "ok" =>
                          /\ IsFile(files, c.fullPath)
                          /\ files[c.fullPath] = normalizeLineEndings(c.content)
                   /\ Failed(c) => \A p \in DOMAIN files \cup DOMAIN snap.files : SameFile(p)

(***************************************************************************)
(* C6: deleteFile follows the backup-and-rollback protocol: the file is    *)
(* first copied to <path>.bak; if the deletion step fails (and is the I/O   *)
(* call that fails) the original file is restored with its original content *)
(* and the failure is propagated; if deletion succeeds the backup is        *)
(* removed, so that after a successful deleteFile neither the file nor its  *)
(* .bak exists.                                                             *)
(***************************************************************************)
C6_DeleteProtocol ==
    \A i \in Procs :
        LET c == cs[i]
            bak == c.fullPath \o ".bak"
        IN  (Done(i) /\ c.op = "delete" /\ c.log # <<>>)
                => /\ c.log[1].io = "copyFile" /\ c.log[1].path = bak
                   /\ (c.faults = 1 /\ Made(c, "unlink", c.fullPath, "fail"))
                          => /\ Failed(c)
                             /\ IsFile(files, c.fullPath)
                             /\ files[c.fullPath] = snap.files[c.fullPath]
                             /\ Made(c, "copyFile", c.fullPath, "ok")
                   /\ (c.faults = 0 /\ Made(c, "unlink", c.fullPath, "ok"))
                          => /\ c.result = "ok"
                             /\ Made(c, "unlink", bak, "ok")
                   /\ c.result = "ok"
                          => /\ c.fullPath \notin DOMAIN files
                             /\ bak \notin DOMAIN files

\* deleteFile has ended after its unlink failed
C6_Witness ==
    \E i \in Procs :
        /\ Done(i)
        /\ cs[i].op = "delete"
        /\ cs[i].faults = 1
        /\ Made(cs[i], "unlink", cs[i].fullPath, "fail")
        /\ Made(cs[i], "copyFile", cs[i].fullPath, "ok")

(***************************************************************************)
(* C7: updateFile on a valid path whose target does not exist behaves      *)
(* exactly like createFile with the same arguments: it makes createFile's   *)
(* I/O calls (mkdir of the directory, write of the normalized content, open *)
(* for display) and no other, the file is created with the normalized       *)
(* content and no backup file is created.                                   *)
(***************************************************************************)
C7_UpdateOrCreate ==
    \A i \in Procs :
        LET c == cs[i]
            createCalls == <<IoEntry("mkdir", PathDirname(c.fullPath), "ok"),
                             IoEntry("writeFile", c.fullPath, "ok"),
                             IoEntry("open", c.fullPath, "ok")>>
        IN  (/\ Done(i)
             /\ c.op = "update"
             /\ c.fullPath # ""
             /\ ~existsSync(snap.files, snap.dirs, c.fullPath))
                => /\ c.nested
                   /\ Len(c.log) <= 3
                   /\ \A k \in 1..Len(c.log) :
                          /\ c.log[k].io = createCalls[k].io
                          /\ c.log[k].path = createCalls[k].path
                   /\ SameFile(c.fullPath \o ".bak")
                   /\ c.result = "ok" <=> (Len(c.log) = 3 /\ c.log[3].res = "ok")
                   /\ c.result = "ok" =>
                          /\ IsFile(files, c.fullPath)
                          /\ files[c.fullPath] = normalizeLineEndings(c.content)

\* updateFile has created a file that did not exist
C7_Witness ==
    \E i \in Procs :
        /\ Done(i)
        /\ cs[i].op = "update"
        /\ cs[i].result = "ok"
        /\ cs[i].fullPath \notin DOMAIN snap.files
        /\ cs[i].fullPath \in DOMAIN files

reservedPrefixes == {".git", ".vscode", "node_modules"}

\* p is one of the three reserved directories of the workspace root, or below one
UnderReserved(p) ==
    \E r \in reservedPrefixes :
        LET d == workspaceRootPath \o "/" \o r
        IN  p = d \/ StartsWith(p, d \o "/")

(***************************************************************************)
(* C8: createFile, updateFile and deleteFile fail with SystemFileBlocked,  *)
(* without any I/O call or disk mutation, whenever the sanitized path       *)
(* relative to the workspace root begins with a reserved prefix (.git,      *)
(* .vscode, node_modules) (and the content is not refused as too large,     *)
(* which is checked first); consequently no operation ever writes or        *)
(* deletes a file under those three directories at the workspace root.      *)
(***************************************************************************)
C8_SystemFilesBlocked ==
    /\ \A p \in DOMAIN files \cup DOMAIN snap.files : UnderReserved(p) => SameFile(p)
    /\ \A d \in dirs \cup snap.dirs : UnderReserved(d) => (d \in dirs <=> d \in snap.dirs)
    /\ \A i \in Procs :
        LET c == cs[i]
            relativePath ==
                PathRelative(workspaceRoot,
                             PathJoin(workspaceRoot, validatePath(c.filePath).path))
        IN  (/\ Done(i)
             /\ workspaceRoot # ""
             /\ c.filePath # ""
             /\ ByteLength(c.content) <= maxFileSize
             /\ \E r \in reservedPrefixes : StartsWith(relativePath, r))
                => /\ c.result = "SystemFileBlocked"
                   /\ NoMutation
                   /\ c.log = <<>>

\* updateFile("node_modules/m", ...) on the existing file has been refused
C8_Witness ==
    \E i \in Procs :
        /\ Done(i)
        /\ cs[i].op = "update"
        /\ cs[i].filePath = "node_modules/m"
        /\ cs[i].content = "x=1;y"
        /\ cs[i].result = "SystemFileBlocked"

(***************************************************************************)
(* getFileSuggestions and getAllFiles.                                     *)
(***************************************************************************)

\* a directory with more entries than this is listed in ascending or in
\* descending order only; a smaller one in every order
MaxShuffle == 3

upperCase == "ABCDEFGHIJKLMNOPQRSTUVWXYZ"

lowerCase == "abcdefghijklmnopqrstuvwxyz"

lowerOf ==
    [c \in {At(upperCase, k) : k \in 1..Len(upperCase)} |->
        At(lowerCase, CHOOSE k \in 1..Len(upperCase) : At(upperCase, k) = c)]

LowerChar(c) == IF c \in DOMAIN lowerOf THEN lowerOf[c] ELSE c

\* String.prototype.toLowerCase
RECURSIVE toLowerCase(_)
toLowerCase(s) == IF s = "" THEN "" ELSE LowerChar(At(s, 1)) \o toLowerCase(Drop(s, 1))

\* the primary order of the root collation: punctuation, digits, letters
collationOrder == "_-./0123456789abcdefghijklmnopqrstuvwxyz"

weightOf ==
    [c \in {At(collationOrder, k) : k \in 1..Len(collationOrder)} |->
        CHOOSE k \in 1..Len(collationOrder) : At(collationOrder, k) = c]

PrimaryWeight(c) == IF LowerChar(c) \in DOMAIN weightOf THEN weightOf[LowerChar(c)] ELSE 0

RECURSIVE ComparePrimary(_, _, _)
ComparePrimary(a, b, k) ==
    IF k > Len(a) /\ k > Len(b) THEN 0
    ELSE IF k > Len(a) THEN -1
    ELSE IF k > Len(b) THEN 1
    ELSE IF PrimaryWeight(At(a, k)) < PrimaryWeight(At(b, k)) THEN -1
    ELSE IF PrimaryWeight(At(a, k)) > PrimaryWeight(At(b, k)) THEN 1
    ELSE ComparePrimary(a, b, k + 1)

\* strings equal at the primary level: the first difference of case decides,
\* lower case first
RECURSIVE CompareCase(_, _, _)
CompareCase(a, b, k) ==
    IF k > Len(a) THEN 0
    ELSE IF At(a, k) = At(b, k) THEN CompareCase(a, b, k + 1)
    ELSE IF At(a, k) = LowerChar(At(a, k)) THEN -1
    ELSE 1

\* String.prototype.localeCompare
localeCompare(a, b) ==
    IF ComparePrimary(a, b, 1) # 0 THEN ComparePrimary(a, b, 1) ELSE CompareCase(a, b, 1)

\* the comparator given to sort
compareFn(a, b, q) ==
    LET aLower == toLowerCase(a)
        bLower == toLowerCase(b)
        queryLower == toLowerCase(q)
    IN  IF aLower = queryLower THEN -1
        ELSE IF bLower = queryLower THEN 1
        ELSE IF StartsWith(aLower, queryLower) THEN -1
        ELSE IF StartsWith(bLower, queryLower) THEN 1
        ELSE localeCompare(a, b)

Reverse(s) == [k \in 1..Len(s) |-> s[Len(s) + 1 - k]]

\* Array.prototype.sort of the engine, for the arrays of fewer than 64
\* elements: the initial run is found (and reversed when descending), the
\* rest is inserted by binary search; the comparator gets the later element
\* first.
RECURSIVE RunEnd(_, _, _, _)
RunEnd(arr, descending, k, q) ==
    IF k = Len(arr) THEN k
    ELSE LET order == compareFn(arr[k + 1], arr[k], q)
         IN  IF (descending /\ order >= 0) \/ (~descending /\ order < 0)
             THEN k
             ELSE RunEnd(arr, descending, k + 1, q)

CountAndMakeRun(arr, q) ==
    LET descending == compareFn(arr[2], arr[1], q) < 0
        n == RunEnd(arr, descending, 2, q)
    IN  [len |-> n,
         arr |-> IF descending
                 THEN Reverse(SubSeq(arr, 1, n)) \o SubSeq(arr, n + 1, Len(arr))
                 ELSE arr]

\* the 0-based position at which pivot is inserted into arr[left..right-1]
RECURSIVE BinarySearch(_, _, _, _, _)
BinarySearch(arr, pivot, left, right, q) ==
    IF left >= right THEN left
    ELSE LET mid == left + ((right - left) \div 2)
         IN  IF compareFn(pivot, arr[mid + 1], q) < 0
             THEN BinarySearch(arr, pivot, left, mid, q)
             ELSE BinarySearch(arr, pivot, mid + 1, right, q)

\* start: the number of elements already in order
RECURSIVE BinaryInsertionSort(_, _, _)
BinaryInsertionSort(arr, start, q) ==
    IF start >= Len(arr) THEN arr
    ELSE LET pivot == arr[start + 1]
             at == BinarySearch(arr, pivot, 0, start, q)
         IN  BinaryInsertionSort(SubSeq(arr, 1, at) \o <<pivot>> \o SubSeq(arr, at + 1, start)
                                     \o SubSeq(arr, start + 2, Len(arr)),
                                 start + 1, q)

ArraySort(arr, q) ==
    IF Len(arr) < 2 THEN arr
    ELSE LET run == CountAndMakeRun(arr, q)
         IN  BinaryInsertionSort(run.arr, run.len, q)

suggestionLimit == 10

\* file.toLowerCase().includes(query.toLowerCase())
MatchesQuery(file, q) == Includes(toLowerCase(file), toLowerCase(q))

\* files.filter(...).sort(...).slice(0, 10)
RankSuggestions(fileList, q) ==
    LET matching == SelectSeq(fileList, LAMBDA file : MatchesQuery(file, q))
        sorted == ArraySort(matching, q)
    IN  SubSeq(sorted, 1, IF Len(sorted) < suggestionLimit THEN Len(sorted) ELSE suggestionLimit)

\* a faulty variant: the dist directory is listed
skipEntry_DistListed(name) ==
    StartsWith(name, ".") \/ name = "node_modules" \/ name = "build"

\* Skip hidden files and specified directories
skipEntry(name) ==
    StartsWith(name, ".") \/ name = "node_modules" \/ name = "dist" \/ name = "build"

\* the names of the entries of directory dir
Children(dir) ==
    {Drop(p, Len(dir) + 1) : p \in {r \in DOMAIN files \cup dirs : r # dir /\ PathDirname(r) = dir}}

RECURSIVE Ascending(_)
Ascending(S) ==
    IF S = {} THEN <<>>
    ELSE LET least == CHOOSE x \in S : \A y \in S : localeCompare(x, y) <= 0
         IN  <<least>> \o Ascending(S \ {least})

\* the orders in which readdir may return the entries S
Orders(S) ==
    IF Cardinality(S) <= MaxShuffle
    THEN {s \in [1..Cardinality(S) -> S] : \A i, j \in 1..Cardinality(S) : i # j => s[i] # s[j]}
    ELSE {Ascending(S), Reverse(Ascending(S))}

\* fs.promises.readdir(dir): the entries in some order, or an error
Readdir(dir) ==
    {[err |-> TRUE, names |-> <<>>]}
        \cup (IF IsDir(dirs, dir)
              THEN {[err |-> FALSE, names |-> o] : o \in Orders(Children(dir))}
              ELSE {})

\* the loops that have no entry left return to their callers
RECURSIVE Unwind(_)
Unwind(stack) ==
    IF stack # <<>> /\ Head(stack).names = <<>> THEN Unwind(Tail(stack)) ELSE stack

\* the catch block: console.error and return []
SgCaught ==
    /\ suggestions' = <<>>
    /\ sgError' = TRUE
    /\ sgPc' = "done"
    /\ pending' = <<>>

\* getFileSuggestions(q) up to the first readdir
SgStart(q) ==
    /\ sgPc \in {"idle", "done"}
    /\ query' = q
    /\ listed' = <<>>
    /\ IF workspaceRoot = "" \/ Trim(q) = ""
       THEN /\ suggestions' = <<>>
            /\ sgError' = FALSE
            /\ sgPc' = "done"
            /\ pending' = <<>>
       ELSE \E r \in Readdir(workspaceRoot) :
                IF r.err
                THEN SgCaught
                ELSE /\ pending' = Unwind(<<[dir |-> workspaceRoot, names |-> r.names]>>)
                     /\ suggestions' = <<>>
                     /\ sgError' = FALSE
                     /\ sgPc' = "listing"
    /\ UNCHANGED nonSgVars

\* one turn of the loop of getAllFiles over the entries of a directory
SgEntry ==
    /\ sgPc = "listing"
    /\ pending # <<>>
    /\ LET frame == Head(pending)
           name == Head(frame.names)
           fullPath == PathJoin(frame.dir, name)
           relativePath == PathRelative(workspaceRoot, fullPath)
           rest == <<[frame EXCEPT !.names = Tail(frame.names)]>> \o Tail(pending)
       IN  IF skipEntry(name)
           THEN /\ pending' = Unwind(rest)
                /\ UNCHANGED <<listed, suggestions, sgError, sgPc>>
           ELSE IF IsDir(dirs, fullPath)
           THEN \E r \in Readdir(fullPath) :
                    IF r.err
                    THEN SgCaught /\ UNCHANGED listed
                    ELSE /\ pending' = Unwind(<<[dir |-> fullPath, names |-> r.names]>> \o rest)
                         /\ UNCHANGED <<listed, suggestions, sgError, sgPc>>
           ELSE /\ listed' = Append(listed, relativePath)
                /\ pending' = Unwind(rest)
                /\ UNCHANGED <<suggestions, sgError, sgPc>>
    /\ UNCHANGED query
    /\ UNCHANGED nonSgVars

\* the listing is complete: filter, sort, slice and return
SgReturn ==
    /\ sgPc = "listing"
    /\ pending = <<>>
    /\ suggestions' = RankSuggestions(listed, query)
    /\ sgPc' = "done"
    /\ UNCHANGED <<query, pending, listed, sgError>>
    /\ UNCHANGED nonSgVars

\* the workspaces whose files are suggested: the relative paths of their files
SuggestTrees ==
    { {"README.md", "src/reader.ts", "build/read.js"},
      {"aa", "ab", "b/a"},
      {"a", "Ab", "ba"},
      {"s/.h/a", "s/dist/a", "s/node_modules/a", "s/build/a", "s/a", ".a", "Dist/a"},
      {"a0", "a1", "a2", "a3", "a4", "a5", "a6", "a7", "a8", "a9", "aa", "ba"} }

Queries == {"", " ", "a", "A", "b", "read", "dist", "zz"}

InitSuggest ==
    /\ workspaceRoot \in {workspaceRootPath, ""}
    /\ \E t \in SuggestTrees :
           /\ files = [p \in {workspaceRootPath \o "/" \o f : f \in t} |-> ""]
           /\ dirs = UNION {Ancestors(PathDirname(workspaceRootPath \o "/" \o f)) : f \in t}
    /\ readonly = {}
    /\ cs = [i \in Procs |-> IdleCall]
    /\ snap = [files |-> files, dirs |-> dirs]
    /\ calls = 0
    /\ SgIdle
    /\ ChatIdle

SgNext ==
    \/ \E q \in Queries : SgStart(q)
    \/ SgEntry
    \/ SgReturn

SpecSuggest == InitSuggest /\ [][SgNext]_vars

Blank(q) == \A k \in 1..Len(q) : At(q, k) \in {" ", "\t", "\n", "\r"}

\* the files of the workspace that getFileSuggestions is to choose from:
\* not hidden, not below node_modules, dist or build, containing the query
Matching ==
    {f \in {Drop(p, Len(workspaceRootPath) + 1) : p \in DOMAIN files} :
        /\ MatchesQuery(f, query)
        /\ \A k \in 1..Len(Split(f)) :
               /\ ~StartsWith(Split(f)[k], ".")
               /\ Split(f)[k] \notin {"node_modules", "dist", "build"}}

\* the order the ranking is described to have: the path equal to the query,
\* then the paths starting with it, then the others, each group in order
Ranked ==
    LET q == toLowerCase(query)
        exact == {f \in Matching : toLowerCase(f) = q}
        prefix == {f \in Matching \ exact : StartsWith(toLowerCase(f), q)}
        others == (Matching \ exact) \ prefix
        all == Ascending(exact) \o Ascending(prefix) \o Ascending(others)
    IN  SubSeq(all, 1, IF Len(all) < 10 THEN Len(all) ELSE 10)

Returned == sgPc = "done" /\ ~sgError /\ workspaceRoot # "" /\ ~Blank(query)

(***************************************************************************)
(* C9: getFileSuggestions returns at most 10 paths ordered as: a path      *)
(* equal to the query (case-insensitive) first, then the paths that start   *)
(* with the query (case-insensitive), then all other matches, in            *)
(* lexicographic order inside each group; the order is determined by the    *)
(* set of matching files alone.                                             *)
(***************************************************************************)
C9_SuggestionOrder == Returned => suggestions = Ranked

(***************************************************************************)
(* C10: getFileSuggestions never fails: it returns the empty list when the *)
(* query is empty or blank, when no workspace is open, or when listing the  *)
(* tree raises an error; and every path it returns is a file of the         *)
(* workspace that contains the query case-insensitively and has no path     *)
(* component that starts with '.' or is named node_modules, dist or build.  *)
(***************************************************************************)
C10_SuggestionsSafe ==
    sgPc = "done" =>
        /\ (workspaceRoot = "" \/ Blank(query) \/ sgError) => suggestions = <<>>
        /\ \A k \in 1..Len(suggestions) : suggestions[k] \in Matching

\* "dist" was asked for in the workspace that has s/dist/a and Dist/a
C10_Witness ==
    /\ sgPc = "done"
    /\ query = "dist"
    /\ (workspaceRootPath \o "/s/dist/a") \in DOMAIN files
    /\ suggestions = <<"Dist/a">>

(***************************************************************************)
(* askAI: the segmentation of the model's response into text and code      *)
(* blocks, and the 'ask' handler's formatting of the blocks.               *)
(***************************************************************************)

MaxLines == 3

\* the fence marker; ^ stands for the backquote in the strings of the model
fence == "^^^"

\* a block of the response; language, file and code are those of a code
\* block, content that of a text block; hasFile: the block has a file key
TextBlock(content) ==
    [type |-> "text", content |-> content, code |-> "", language |-> "",
     hasFile |-> FALSE, file |-> ""]

\* langAndFile.match(/{file:\s*([^}]+)}/): the positions at which it matches
FileMatches(langAndFile) ==
    {k \in 1..(Len(langAndFile) - 5) :
        /\ SubSeq(langAndFile, k, k + 5) = "{file:"
        /\ IndexOfAny(langAndFile, {"}"}, k + 6) <= Len(langAndFile)
        /\ IndexOfAny(langAndFile, {"}"}, k + 6) > k + 6}

\* fileMatch[1]: what [^}]+ matched, at the first match
FileMatchGroup(langAndFile) ==
    LET k == CHOOSE m \in FileMatches(langAndFile) : \A n \in FileMatches(langAndFile) : m <= n
        close == IndexOfAny(langAndFile, {"}"}, k + 6)
        \* \s* is greedy but leaves [^}]+ one character
        first == IF SkipWs(langAndFile, k + 6) >= close THEN close - 1
                 ELSE SkipWs(langAndFile, k + 6)
    IN  SubSeq(langAndFile, first, close - 1)

\* the end of a code block: currentBlock with its code, language and file
CodeBlock(code, blockStartLine) ==
    LET langAndFile == Trim(Drop(blockStartLine, 3))
    IN  IF FileMatches(langAndFile) # {}
        THEN [type |-> "code", content |-> "", code |-> Trim(code) \o "\n",
              language |-> Trim(Take(langAndFile, IndexOfAny(langAndFile, {"{"}, 1) - 1)),
              hasFile |-> TRUE, file |-> Trim(FileMatchGroup(langAndFile))]
        ELSE [type |-> "code", content |-> "", code |-> Trim(code) \o "\n",
              language |-> langAndFile, hasFile |-> FALSE, file |-> ""]

\* the variables of the loop before its first line
LoopStart ==
    [blocks |-> <<>>, currentText |-> "", inCodeBlock |-> FALSE, code |-> "",
     blockStartLine |-> ""]

\* one turn of the loop over the lines
\* a faulty variant: a block with no line between its fences is pushed too
LoopLine_EmptyPushed(st, line) ==
    IF StartsWith(Trim(line), fence)
    THEN IF st.inCodeBlock
         THEN [st EXCEPT !.inCodeBlock = FALSE,
                         !.blocks = Append(@, CodeBlock(st.code, st.blockStartLine)),
                         !.code = "",
                         !.blockStartLine = ""]
         ELSE [st EXCEPT !.blocks = IF Trim(st.currentText) # ""
                                    THEN Append(@, TextBlock(Trim(st.currentText)))
                                    ELSE @,
                         !.currentText = IF Trim(st.currentText) # "" THEN "" ELSE @,
                         !.inCodeBlock = TRUE,
                         !.blockStartLine = line,
                         !.code = ""]
    ELSE IF st.inCodeBlock
    THEN [st EXCEPT !.code = @ \o line \o "\n"]
    ELSE [st EXCEPT !.currentText = @ \o line \o "\n"]

LoopLine(st, line) ==
    IF StartsWith(Trim(line), fence)
    THEN IF st.inCodeBlock
         THEN [st EXCEPT !.inCodeBlock = FALSE,
                         !.blocks = IF st.code # ""
                                    THEN Append(@, CodeBlock(st.code, st.blockStartLine))
                                    ELSE @,
                         !.code = "",
                         !.blockStartLine = ""]
         ELSE [st EXCEPT !.blocks = IF Trim(st.currentText) # ""
                                    THEN Append(@, TextBlock(Trim(st.currentText)))
                                    ELSE @,
                         !.currentText = IF Trim(st.currentText) # "" THEN "" ELSE @,
                         !.inCodeBlock = TRUE,
                         !.blockStartLine = line,
                         !.code = ""]
    ELSE IF st.inCodeBlock
    THEN [st EXCEPT !.code = @ \o line \o "\n"]
    ELSE [st EXCEPT !.currentText = @ \o line \o "\n"]

RECURSIVE Loop(_, _)
Loop(st, lines) ==
    IF lines = <<>> THEN st ELSE Loop(LoopLine(st, Head(lines)), Tail(lines))

\* replace(/\r\n/g, '\n')
RECURSIVE ReplaceCrLf(_)
ReplaceCrLf(s) ==
    IF s = "" THEN ""
    ELSE IF StartsWith(s, "\r\n") THEN "\n" \o ReplaceCrLf(Drop(s, 2))
    ELSE At(s, 1) \o ReplaceCrLf(Drop(s, 1))

\* replace(/\r/g, '\n')
RECURSIVE ReplaceCr(_)
ReplaceCr(s) ==
    IF s = "" THEN ""
    ELSE (IF At(s, 1) = "\r" THEN "\n" ELSE At(s, 1)) \o ReplaceCr(Drop(s, 1))

\* a faulty variant: only \r\n is converted
CleanUp_CrLfOnly(block) ==
    IF block.type = "code" /\ block.code # ""
    THEN LET code == ReplaceCrLf(block.code)
         IN  [block EXCEPT !.code = IF EndsWith(code, "\n") THEN code ELSE code \o "\n"]
    ELSE block

\* Clean up code blocks and ensure proper line endings
CleanUp(block) ==
    IF block.type = "code" /\ block.code # ""
    THEN LET code == ReplaceCr(ReplaceCrLf(block.code))
         IN  [block EXCEPT !.code = IF EndsWith(code, "\n") THEN code ELSE code \o "\n"]
    ELSE block

\* a faulty variant: the code of a block left open is pushed after the loop
Segment_DanglingPushed(text) ==
    LET st == Loop(LoopStart, SplitLines(text, 1, ""))
        closed == IF st.inCodeBlock /\ st.code # ""
                  THEN Append(st.blocks, CodeBlock(st.code, st.blockStartLine))
                  ELSE st.blocks
        pushed == IF Trim(st.currentText) # ""
                  THEN Append(closed, TextBlock(Trim(st.currentText)))
                  ELSE closed
    IN  [k \in 1..Len(pushed) |-> CleanUp(pushed[k])]

\* the blocks askAI returns for the response text
Segment(text) ==
    LET st == Loop(LoopStart, SplitLines(text, 1, ""))
        pushed == IF Trim(st.currentText) # ""
                  THEN Append(st.blocks, TextBlock(Trim(st.currentText)))
                  ELSE st.blocks
    IN  [k \in 1..Len(pushed) |-> CleanUp(pushed[k])]

\* the 'ask' handler: one block as markdown
FormatBlock(block) ==
    IF block.type = "text" /\ block.content # "" THEN block.content
    ELSE IF block.type = "code"
    THEN LET fileInfo == IF block.hasFile /\ block.file # ""
                         THEN " {file: " \o block.file \o "}"
                         ELSE ""
         IN  fence \o block.language \o fileInfo \o "\n" \o block.code \o "\n" \o fence
    ELSE ""

\* join('\n\n')
RECURSIVE JoinBlank(_)
JoinBlank(parts) ==
    IF parts = <<>> THEN ""
    ELSE IF Len(parts) = 1 THEN parts[1]
    ELSE parts[1] \o "\n\n" \o JoinBlank(Tail(parts))

formattedResponse(response) ==
    JoinBlank([k \in 1..Len(response) |-> FormatBlock(response[k])])

\* the lines the responses are made of
ResponseLines ==
    {"", "x", "  y", "z\r", fence, "^^^js {file: a.js}", "  ^^^py", "^^^c {x}"}

RECURSIVE TextsOf(_)
TextsOf(n) ==
    IF n = 1 THEN ResponseLines
    ELSE LET shorter == TextsOf(n - 1)
         IN  shorter \cup {t \o "\n" \o l : t \in shorter, l \in ResponseLines}

NamedResponses ==
    { "Here:\n^^^js {file: a.js}\nconsole.log(1)\n^^^\nDone",
      "^^^\na\r^^^\n^^^",
      "^^^ts {file:  }\nx\n^^^",
      "^^^a{b {file: s/t.js } rest\np\rq\n\n^^^\r\nend\r",
      "one\n^^^\n^^^\ntwo\n^^^\n^^^\nthree\n^^^\n^^^\nfour\n^^^\n\n\n^^^",
      "^^^\n\n \n^^^\n^^^\r\np\rq\r\nr\r\n^^^",
      "intro\n^^^js\nlet a\n^^^\n tail \n^^^py {file: b.py}\nlost\n" }

Responses == TextsOf(MaxLines) \cup NamedResponses


\* the model has answered: askAI segments the response
SegSegment ==
    /\ segPc = "response"
    /\ blocks' = Segment(responseText)
    /\ segPc' = "segmented"
    /\ UNCHANGED <<responseText, formatted, reparsed>>
    /\ UNCHANGED nonSegVars

\* the 'ask' handler formats the blocks for the panel
SegFormat ==
    /\ segPc = "segmented"
    /\ formatted' = formattedResponse(blocks)
    /\ segPc' = "formatted"
    /\ UNCHANGED <<responseText, blocks, reparsed>>
    /\ UNCHANGED nonSegVars

\* the markdown is segmented again
SegReparse ==
    /\ segPc = "formatted"
    /\ reparsed' = Segment(formatted)
    /\ segPc' = "reparsed"
    /\ UNCHANGED <<responseText, blocks, formatted>>
    /\ UNCHANGED nonSegVars

InitSegment ==
    /\ workspaceRoot = workspaceRootPath
    /\ files = InitFiles
    /\ dirs = InitDirs
    /\ readonly = {}
    /\ cs = [i \in Procs |-> IdleCall]
    /\ snap = [files |-> files, dirs |-> dirs]
    /\ calls = 0
    /\ query = ""
    /\ pending = <<>>
    /\ listed = <<>>
    /\ suggestions = <<>>
    /\ sgError = FALSE
    /\ sgPc = "idle"
    /\ responseText \in Responses
    /\ blocks = <<>>
    /\ formatted = ""
    /\ reparsed = <<>>
    /\ segPc = "response"
    /\ ChatIdle

SegNext ==
    \/ SegSegment
    \/ SegFormat
    \/ SegReparse

SpecSegment == InitSegment /\ [][SegNext]_vars
(***************************************************************************)
(* The response, read without the segmenter: its lines, its fence lines,   *)
(* and the blocks they open and close.                                     *)
(***************************************************************************)
lines == SplitLines(responseText, 1, "")

FenceLines == LET ls == lines IN {k \in 1..Len(ls) : StartsWith(Trim(ls[k]), fence)}

\* the fence lines open and close blocks in turn
Opening == LET F == FenceLines IN {k \in F : Cardinality({j \in F : j < k}) % 2 = 0}

Closing == FenceLines \ Opening

\* the opening lines of the blocks that are closed, and the line closing each
ClosedBlocks == LET C == Closing IN {o \in Opening : \E c \in C : c > o}

CloseOf(o) == LET C == Closing IN CHOOSE c \in C : c > o /\ \A d \in C : d > o => c <= d

\* the closed blocks with at least one line between the fences
FilledBlocks == LET C == Closing IN {o \in ClosedBlocks : o + 1 \notin C}

\* the k-th element of a set of line numbers
Nth(S, k) == CHOOSE o \in S : Cardinality({p \in S : p <= o}) = k

CodeAt == {k \in 1..Len(blocks) : blocks[k].type = "code"}

TextAt == {k \in 1..Len(blocks) : blocks[k].type = "text"}

\* the lines from..to of ls, each followed by a newline
RECURSIVE LinesBetween(_, _, _)
LinesBetween(ls, from, to) ==
    IF from > to THEN "" ELSE ls[from] \o "\n" \o LinesBetween(ls, from + 1, to)

Segmented == segPc \in {"segmented", "formatted", "reparsed"}

C12_RoundTrip == segPc = "reparsed" => reparsed = blocks

(***************************************************************************)
(* C13: every code segment the segmenter emits, whatever the line endings  *)
(* of the input and also for a block made only of blank lines, has a code   *)
(* string without \r that ends with exactly one \n.                        *)
(***************************************************************************)
C13_CodeNormalized ==
    Segmented =>
        \A k \in CodeAt :
            LET code == blocks[k].code
            IN  /\ ~Includes(code, "\r")
                /\ EndsWith(code, "\n")
                /\ ~EndsWith(code, "\n\n") \/ code = "\n"

\* a response with a block of blank lines only and a block with \r\n and
\* bare \r inside, both segmented
C13_Witness ==
    /\ Segmented
    /\ LET ls == lines
       IN  /\ \E o \in FilledBlocks : Trim(LinesBetween(ls, o + 1, CloseOf(o) - 1)) = ""
           /\ \E o \in FilledBlocks :
                  LET inside == Trim(LinesBetween(ls, o + 1, CloseOf(o) - 1))
                  IN  Includes(inside, "\r\n") /\ Includes(ReplaceCrLf(inside), "\r")
    /\ Cardinality(CodeAt) = 2

\* an opening fence line with no closing fence line after it
Dangling == Opening \ ClosedBlocks

\* the lines 1..n of the response as a text
PrefixText(n) == JoinLines(SubSeq(lines, 1, n))

(***************************************************************************)
(* C14: an opening fence line with no later closing fence line produces no *)
(* code segment: what follows the opening line is discarded (the segments   *)
(* are those of the text before the opening line), and the text accumulated *)
(* before the opening line is emitted as a text segment if it is not blank. *)
(***************************************************************************)
C14_DanglingFenceDropped ==
    Segmented =>
        \A o \in Dangling :
            LET previous == {c \in Closing : c < o} \cup {0}
                last == CHOOSE c \in previous : \A d \in previous : d <= c
                before == Trim(LinesBetween(lines, last + 1, o - 1))
            IN  /\ Cardinality(CodeAt) = Cardinality(FilledBlocks)
                /\ blocks = Segment(PrefixText(o - 1))
                /\ before # "" =>
                       /\ blocks # <<>>
                       /\ blocks[Len(blocks)] = TextBlock(before)

\* a response with text, a closed block, text again and then a fence left
\* open with lines after it
C14_Witness ==
    /\ Segmented
    /\ \E o \in Dangling :
           /\ o < Len(lines)
           /\ Trim(LinesBetween(lines, o + 1, Len(lines))) # ""
           /\ blocks # <<>>
           /\ blocks[Len(blocks)].type = "text"
    /\ CodeAt # {}
\* the code segment of the closed block opened at line o, o in FilledBlocks
SegmentOf(o) == blocks[Nth(CodeAt, Cardinality({p \in FilledBlocks : p <= o}))]

\* the opening fence line after the fence marker
AfterMarker(line) == Drop(Trim(line), Len(fence))

(***************************************************************************)
(* C15: for every closed fenced block, the language of the emitted code    *)
(* segment is the text of the opening fence line after the fence marker and *)
(* before any '{', trimmed, and its file path is the trimmed path of a      *)
(* {file: <path>} annotation on that line, absent when the line has none.   *)
(***************************************************************************)
C15_LanguageAndFile ==
    Segmented /\ Cardinality(CodeAt) = Cardinality(FilledBlocks) =>
        \A o \in FilledBlocks :
            LET rest == AfterMarker(lines[o])
                segment == SegmentOf(o)
            IN  /\ segment.language = Trim(Take(rest, IndexOfAny(rest, {"{"}, 1) - 1))
                /\ segment.hasFile = (FileMatches(rest) # {})
                /\ segment.hasFile => segment.file = Trim(FileMatchGroup(rest))

(***************************************************************************)
(* C20: inside a closed fenced block the lines are kept verbatim: the code *)
(* emitted is the lines between the opening and the closing fence line,     *)
(* each followed by \n, with the leading whitespace of every line kept      *)
(* (the indentation of the first line and leading blank lines included),    *)
(* changed only by the line-ending conversion and the single trailing \n.   *)
(***************************************************************************)
C20_CodeVerbatim ==
    Segmented /\ Cardinality(CodeAt) = Cardinality(FilledBlocks) =>
        \A o \in FilledBlocks :
            SegmentOf(o).code =
                ReplaceCr(ReplaceCrLf(TrimEnd(LinesBetween(lines, o + 1, CloseOf(o) - 1)))) \o "\n"
\* s is empty or made of white space only
Blank16(s) == \A k \in 1..Len(s) : IsWs(At(s, k))

(***************************************************************************)
(* C16: applyCodeBlock with a code argument that is empty or made of white *)
(* space only fails with EmptyContent, with or without a path, and makes no *)
(* disk mutation: no I/O call is made, no file is created, updated or       *)
(* backed up.                                                               *)
(***************************************************************************)
C16_BlankCodeRefused ==
    \A i \in Procs :
        LET c == cs[i]
        IN  c.op = "apply" /\ Blank16(c.content) /\ c.pc # "apply_check" =>
                /\ Done(i)
                /\ c.result = "EmptyContent"
                /\ c.log = <<>>
                /\ NoMutation

\* applyCodeBlock has refused code made of white space, given with a path
C16_Witness ==
    \E i \in Procs :
        /\ Done(i)
        /\ cs[i].op = "apply"
        /\ cs[i].content = " \n"
        /\ cs[i].filePath = "a"
        /\ cs[i].result = "EmptyContent"
(***************************************************************************)
(* The chat: the message handler of the webview panel (extension.ts) with  *)
(* handleFileCommand, handleSlashCommand and handleCreateFileCommand, and   *)
(* askAI with its conversation history.  One message is handled at a time;  *)
(* a call of the FileManager is one step here, with the outcomes createFile,*)
(* updateFile and deleteFile can have.                                      *)
(***************************************************************************)
MaxMessages == 2

MaxClears == 1

\* String.prototype.split(' ')
RECURSIVE SplitSpaces(_, _, _)
SplitSpaces(s, i, cur) ==
    IF i > Len(s) THEN <<cur>>
    ELSE IF At(s, i) = " " THEN <<cur>> \o SplitSpaces(s, i + 1, "")
    ELSE SplitSpaces(s, i + 1, cur \o At(s, i))

\* Array.prototype.join(' ')
RECURSIVE JoinSpaces(_)
JoinSpaces(ws) ==
    IF ws = <<>> THEN ""
    ELSE IF Len(ws) = 1 THEN ws[1]
    ELSE ws[1] \o " " \o JoinSpaces(Tail(ws))

\* ws[k - 1] of the code, "" standing for undefined
Word(ws, k) == IF k <= Len(ws) THEN ws[k] ELSE ""

\* ws.slice(k - 1).join(' ')
Rest(ws, k) == JoinSpaces(SubSeq(ws, k, Len(ws)))

\* path.extname(fileName).slice(1) || 'txt'
FileExt(fileName) ==
    LET base == Word(Split(fileName), Len(Split(fileName)))
        dots == {k \in 2..Len(base) : At(base, k) = "."}
    IN  IF dots = {} \/ Drop(base, CHOOSE k \in dots : \A d \in dots : d <= k) = "" THEN "txt"
        ELSE Drop(base, CHOOSE k \in dots : \A d \in dots : d <= k)

\* the variables a step of the handler may change, as one record
Now ==
    [chat |-> chat, history |-> conversationHistory, cache |-> lastGeneratedContent,
     outbox |-> outbox, files |-> files, gen |-> gen, applied |-> applied,
     dropped |-> dropped]

Becomes(s) ==
    /\ chat' = s.chat
    /\ conversationHistory' = s.history
    /\ lastGeneratedContent' = s.cache
    /\ outbox' = s.outbox
    /\ files' = s.files
    /\ gen' = s.gen
    /\ applied' = s.applied
    /\ dropped' = s.dropped
    /\ waits' = IF s.chat.pc = "idle" THEN 0 ELSE waits + 1

\* chatPanel?.webview.postMessage({ command: "response", text })
Post(s, text) ==
    IF chatPanel
    THEN [s EXCEPT !.outbox = Append(@, [command |-> "response", text |-> text,
                                         ask |-> s.chat.ask])]
    ELSE [s EXCEPT !.dropped = @ \cup {s.chat.ask}]

\* the handler posts its response and returns
Return(s, text) == [Post(s, text) EXCEPT !.chat = IdleChat]

\* a handler without its catch: the error ends the handling and nothing is
\* posted
Throw_Escapes(s, message) == [s EXCEPT !.chat = IdleChat]

\* an error reaches the catch of the handler
Throw(s, message) == Return(s, "Error: " \o message)

\* storeGeneratedContent(fileName, content)
storeGeneratedContent(cache, fileName, content) ==
    [f \in DOMAIN cache \cup {fileName} |-> IF f = fileName THEN content ELSE cache[f]]

\* what askAI returns: an array of blocks, or a string
ArrayResult(bs) == [isArray |-> TRUE, blocks |-> bs, text |-> ""]

StringResult(text) == [isArray |-> FALSE, blocks |-> <<>>, text |-> text]

\* the catch of askAI
AskAICatch(message) ==
    IF Includes(message, "API key")
    THEN ArrayResult(<<TextBlock("Error: Invalid API key configuration. Please check your API key.")>>)
    ELSE IF Includes(message, "not found") \/ Includes(message, "deprecated")
    THEN ArrayResult(<<TextBlock("Error: The selected model is not available. Please try again later.")>>)
    ELSE ArrayResult(<<TextBlock("Error: " \o message)>>)

\* the loop of handleFileCommand and handleSlashCommand over the response:
\* the code of the first code block that has code
ExtractCode(result) ==
    LET coded == {k \in 1..Len(result.blocks) :
                     result.blocks[k].type = "code" /\ result.blocks[k].code # ""}
    IN  IF ~result.isArray \/ coded = {} THEN ""
        ELSE result.blocks[CHOOSE k \in coded : \A j \in coded : k <= j].code

\* the preview handleFileCommand and handleSlashCommand return
Preview(fileName, existingContent, content) ==
    (IF existingContent # ""
     THEN "Current content:\n^^^" \o FileExt(fileName) \o "\n" \o existingContent \o "\n^^^\n\n"
     ELSE "")
    \o "Generated code to " \o (IF existingContent # "" THEN "append" ELSE "create")
    \o ":\n^^^" \o FileExt(fileName) \o "\n" \o content
    \o "\n^^^\n\n<div class=\"apply-button-container\"><button class=\"apply-button\" onclick=\"applyChanges('"
    \o fileName \o "')\">Apply Changes</button></div>"

\* the 'ask' handler after askAI: the next code block that names a file
NextFileBlock(response, from) ==
    LET tagged == {k \in from..Len(response) :
                      /\ response[k].type = "code"
                      /\ response[k].hasFile /\ response[k].file # ""
                      /\ response[k].code # ""}
    IN  IF tagged = {} THEN 0 ELSE CHOOSE k \in tagged : \A j \in tagged : k <= j

\* the 'ask' handler from block number from on: the next file operation, or
\* the formatted response
ProcessBlocks(s, from) ==
    LET k == NextFileBlock(s.chat.response, from)
    IN  IF k = 0 THEN Return(s, formattedResponse(s.chat.response))
        ELSE [s EXCEPT !.chat.pc = "block_update", !.chat.index = k]

\* the caller of askAI goes on with what askAI returned
Continue(s, result) ==
    IF s.chat.via = "plain"
    THEN IF result.isArray
         THEN ProcessBlocks([s EXCEPT !.chat.response = result.blocks], 1)
         \* a string has no map method
         ELSE Throw(s, "response.map is not a function")
    ELSE LET content == ExtractCode(result)
             c == s.chat
             appends == c.existingContent # "" /\ (c.via = "file" \/ c.command = "update")
             finalContent == IF appends
                             THEN c.existingContent \o "\n\n/* New code */\n" \o content
                             ELSE content
         IN  IF content = "" THEN Return(s, "Failed to generate code from the prompt")
             ELSE Return([s EXCEPT !.cache = storeGeneratedContent(@, c.fileName, finalContent),
                                   !.gen = storeGeneratedContent(@, c.fileName,
                                               [arg |-> c.arg, content |-> finalContent])],
                         Preview(c.fileName, c.existingContent, content))

\* askAI with a history that keeps only the prompt of the current call
askAI_HistoryRestarted(s, prompt) ==
    LET ws == SplitSpaces(Drop(prompt, 1), 1, "")
        command == Word(ws, 1)
        args == Rest(ws, 2)
        fileName == Word(SplitSpaces(args, 1, ""), 1)
    IN  IF Trim(prompt) = "" THEN Continue(s, StringResult("Please provide a valid prompt."))
        ELSE IF StartsWith(prompt, "/") /\ command \in {"create", "update"}
        THEN IF fileName = "" THEN Continue(s, StringResult("Please provide a file name"))
             ELSE [s EXCEPT !.chat.pc = "ai_fs", !.chat.aiOp = command,
                            !.chat.aiFile = fileName,
                            !.chat.aiContent = Rest(SplitSpaces(args, 1, ""), 2)]
        ELSE IF StartsWith(prompt, "/") /\ command = "delete"
        THEN IF args = "" THEN Continue(s, StringResult("Please provide a file name"))
             ELSE [s EXCEPT !.chat.pc = "ai_fs", !.chat.aiOp = command, !.chat.aiFile = args]
        ELSE [s EXCEPT !.history = <<[role |-> "user", content |-> prompt]>>,
                       !.chat.pc = "generate", !.chat.prompt = prompt]

\* askAI(prompt, ...) to its first await, or to its return
askAI(s, prompt) ==
    LET ws == SplitSpaces(Drop(prompt, 1), 1, "")
        command == Word(ws, 1)
        args == Rest(ws, 2)
        fileName == Word(SplitSpaces(args, 1, ""), 1)
    IN  IF Trim(prompt) = "" THEN Continue(s, StringResult("Please provide a valid prompt."))
        ELSE IF StartsWith(prompt, "/") /\ command \in {"create", "update"}
        THEN IF fileName = "" THEN Continue(s, StringResult("Please provide a file name"))
             ELSE [s EXCEPT !.chat.pc = "ai_fs", !.chat.aiOp = command,
                            !.chat.aiFile = fileName,
                            !.chat.aiContent = Rest(SplitSpaces(args, 1, ""), 2)]
        ELSE IF StartsWith(prompt, "/") /\ command = "delete"
        THEN IF args = "" THEN Continue(s, StringResult("Please provide a file name"))
             ELSE [s EXCEPT !.chat.pc = "ai_fs", !.chat.aiOp = command, !.chat.aiFile = args]
        ELSE [s EXCEPT !.history = Append(@, [role |-> "user", content |-> prompt]),
                       !.chat.pc = "generate", !.chat.prompt = prompt]

\* the marker between the existing and the generated content
newCodeMarker == "/* New code */"

\* lastContent.split('/* New code */')[1]
AfterMarker1(lastContent) ==
    LET at == {k \in 1..(Len(lastContent) - Len(newCodeMarker) + 1) :
                  SubSeq(lastContent, k, k + Len(newCodeMarker) - 1) = newCodeMarker}
        first == CHOOSE k \in at : \A j \in at : k <= j
        rest == Drop(lastContent, first + Len(newCodeMarker) - 1)
        more == {k \in 1..(Len(rest) - Len(newCodeMarker) + 1) :
                    SubSeq(rest, k, k + Len(newCodeMarker) - 1) = newCodeMarker}
    IN  IF more = {} THEN rest ELSE Take(rest, (CHOOSE k \in more : \A j \in more : k <= j) - 1)

\* handleFileCommand to its first await
handleFileCommand(s, text) ==
    LET parts == SplitSpaces(Drop(text, 1), 1, "")
        fileName == Word(parts, 1)
    IN  IF fileName = "" THEN [s EXCEPT !.chat.pc = "suggest"]
        ELSE [s EXCEPT !.chat.pc = "read", !.chat.via = "file", !.chat.fileName = fileName,
                       !.chat.arg = fileName, !.chat.prompt = Rest(parts, 2)]

unknownCommandHelp ==
    "Available commands:\n"
    \o "/create filename prompt - Create a new file with AI-generated content\n"
    \o "/update @filename prompt - Update file with AI-generated content\n"
    \o "/update @filename - Show current content\n"
    \o "/delete filename - Delete a file"

\* handleSlashCommand to its first await, or to its return
handleSlashCommand(s, text) ==
    LET ws == SplitSpaces(Drop(text, 1), 1, "")
        command == Word(ws, 1)
        fileName == Word(ws, 2)
        kind == toLowerCase(command)
        lastContent == IF fileName \in DOMAIN s.cache THEN s.cache[fileName] ELSE ""
    IN  CASE kind = "apply" ->
               IF fileName = "" THEN Return(s, "Please provide a filename: /apply filename")
               ELSE IF lastContent = ""
               THEN Return([s EXCEPT !.applied = [arg |-> fileName, content |-> ""]],
                           "No generated content found for this file. Generate content first using @ or /create or /update commands.")
               ELSE [s EXCEPT !.applied = [arg |-> fileName, content |-> lastContent],
                              !.chat.pc = "apply_stat", !.chat.fileName = fileName,
                              !.chat.lastContent = lastContent]
          [] kind \in {"create", "update"} ->
               IF fileName = ""
               THEN Return(s, "Please provide a filename: /" \o command \o " filename content")
               ELSE [s EXCEPT !.chat.pc = "read", !.chat.via = "slash",
                              !.chat.command = command,
                              !.chat.fileName = IF StartsWith(fileName, "@")
                                                THEN Drop(fileName, 1) ELSE fileName,
                              !.chat.arg = fileName,
                              !.chat.prompt = Rest(ws, 3)]
          [] kind = "delete" ->
               IF fileName = "" THEN Return(s, "Please provide a filename: /delete filename")
               ELSE [s EXCEPT !.chat.pc = "delete", !.chat.fileName = fileName]
          [] OTHER -> Return(s, "Unknown command: " \o command \o ". " \o unknownCommandHelp)

\* words.findIndex(w => w.toLowerCase() === word), from 1; 0 for -1
FindWord(words, word) ==
    LET at == {k \in 1..Len(words) : toLowerCase(words[k]) = word}
    IN  IF at = {} THEN 0 ELSE CHOOSE k \in at : \A j \in at : k <= j

\* handleCreateFileCommand to its await, or to its return
handleCreateFileCommand(s, text) ==
    LET words == SplitSpaces(text, 1, "")
        createIndex == FindWord(words, "create")
        fileIndex == FindWord(words, "file")
        fileName == Word(words, Max({createIndex, fileIndex}) + 1)
        contentIndex == FindWord(words, "with")
    IN  IF createIndex = 0 \/ fileIndex = 0
        THEN Return(s, "Could not understand the file creation command. Please use format: 'create file filename with content'")
        ELSE IF fileName = "" THEN Return(s, "Please specify a filename")
        ELSE [s EXCEPT !.chat.pc = "nl_create", !.chat.fileName = fileName,
                       !.chat.content = IF contentIndex = 0 THEN ""
                                        ELSE Rest(words, contentIndex + 1)]

\* case "ask" of the message handler, to its first await or to its return
Dispatch(s, text) ==
    IF StartsWith(text, "@") THEN handleFileCommand(s, text)
    ELSE IF StartsWith(text, "/") THEN handleSlashCommand(s, text)
    ELSE IF Includes(toLowerCase(text), "create") /\ Includes(toLowerCase(text), "file")
    THEN handleCreateFileCommand(s, text)
    ELSE askAI([s EXCEPT !.chat.via = "plain"], text)

\* the texts of the 'ask' messages
AskTexts ==
    { "hi", " ", "@", "@a", "@a p", "@n p", "@n /create n x",
      "/create n p", "/create @n p", "/update a p", "/update @a p", "/update n p",
      "/Update n p", "/create a", "/apply a", "/apply @a", "/apply n", "/apply @n",
      "/apply", "/delete a", "/delete", "/nope", "create file g with x", "recreate files" }

\* the texts the model answers, and the messages of the errors it throws
GenResponses == {"^^^js\nA\n^^^", "no code", "^^^js {file: n}\nB\n^^^"}

GenFailures == {"fetch failed"}

\* the blocks askAI makes of each answer
answerBlocks == [text \in GenResponses |-> Segment(text)]

\* the file names the messages and the answers can give a FileManager call
ChatNames ==
    LET words == UNION {{Word(SplitSpaces(t, 1, ""), k) : k \in 1..Len(t)} : t \in AskTexts}
    IN  words \cup {Drop(w, 1) : w \in words}
              \cup UNION {{answerBlocks[t][k].file : k \in 1..Len(answerBlocks[t])} :
                             t \in GenResponses}

\* validatePath, path.join and validateFileOperation for each of them, the
\* content left aside
validated == [f \in ChatNames |-> Validation(workspaceRootPath, f, FALSE, "")]

\* createFile, updateFile or deleteFile on a validated path as one step: it
\* succeeds, or throws
ValidatedOutcomes(v, fl, op, content) ==
    LET \* the size is tested before the reserved prefixes
        err == IF v.err \in {"none", "SystemFileBlocked"} /\ contentTooLarge(op # "delete", content)
               THEN "ContentTooLarge" ELSE v.err
        failed == [ok |-> FALSE, files |-> fl, message |-> "IOError"]
    IN  IF err # "none" THEN {[ok |-> FALSE, files |-> fl, message |-> err]}
        ELSE IF op = "delete"
        THEN IF v.fullPath \notin DOMAIN fl
             THEN {[ok |-> FALSE, files |-> fl, message |-> "NotFound"]}
             ELSE {[ok |-> TRUE, files |-> Remove(fl, v.fullPath), message |-> ""], failed}
        ELSE {[ok |-> TRUE, files |-> Put(fl, v.fullPath, normalizeLineEndings(content)),
               message |-> ""], failed}

\* createFile, updateFile or deleteFile as one step
FileOutcomes(fl, op, fileName, content) ==
    ValidatedOutcomes(validated[fileName], fl, op, content)

\* the variables of the file manager and of the other components that the
\* chat leaves alone
chatFrame == <<workspaceRoot, dirs, readonly, cs, snap, calls, sgVars, segVars>>

\* chatCursor.showSidebar creates the panel and registers the handler
ShowSidebar ==
    /\ ~chatPanel
    /\ chatPanel' = TRUE
    /\ UNCHANGED <<files, conversationHistory, lastGeneratedContent, outbox, chat, asked,
                   clears, gen, applied, dropped, waits, chatFrame>>

\* onDidDispose: the user closes the panel
Dispose ==
    /\ chatPanel
    /\ chatPanel' = FALSE
    /\ UNCHANGED <<files, conversationHistory, lastGeneratedContent, outbox, chat, asked,
                   clears, gen, applied, dropped, waits, chatFrame>>

\* clearConversationHistory()
ClearHistory ==
    /\ clears < MaxClears
    /\ conversationHistory' = <<>>
    /\ clears' = clears + 1
    /\ UNCHANGED <<files, lastGeneratedContent, chatPanel, outbox, chat, asked, gen,
                   applied, dropped, waits, chatFrame>>

\* what a step of the handler leaves alone
HandlerFrame == UNCHANGED <<chatPanel, clears, chatFrame>>

\* the webview sends an 'ask' message; the handler runs to its first await.
\* The webview has taken the messages posted before.
Receive ==
    /\ chatPanel
    /\ chat.pc = "idle"
    /\ asked < MaxMessages
    /\ asked' = asked + 1
    /\ \E text \in AskTexts :
           Becomes(Dispatch([Now EXCEPT !.chat.ask = asked + 1, !.outbox = <<>>,
                                        !.dropped = {}], text))
    /\ HandlerFrame

\* getFileSuggestions('') returns; the query is blank, the list empty
SuggestReturns ==
    /\ chat.pc = "suggest"
    /\ Becomes(Return(Now, "No files found in workspace"))
    /\ UNCHANGED asked
    /\ HandlerFrame

\* vscode.workspace.fs.readFile returns or throws, in handleFileCommand and
\* in handleSlashCommand (create, update)
ReadReturns ==
    /\ chat.pc = "read"
    /\ LET c == chat
           full == PathJoin(workspaceRoot, c.fileName)
           reads == {[ok |-> FALSE, content |-> ""]} \cup
                    (IF full \in DOMAIN files THEN {[ok |-> TRUE, content |-> files[full]]}
                     ELSE {})
       IN  \E r \in reads :
               LET s == [Now EXCEPT !.chat.existingContent = r.content]
               IN  Becomes(
                   IF c.via = "slash" /\ ~r.ok /\ c.command = "update"
                   THEN Return(s, "File " \o c.fileName
                                   \o " does not exist. Use /create to create a new file.")
                   ELSE IF c.prompt = ""
                   THEN IF c.via = "file"
                        THEN Return(s, IF r.content # ""
                                       THEN "Content of " \o c.fileName \o ":\n^^^"
                                            \o FileExt(c.fileName) \o "\n" \o r.content \o "\n^^^"
                                       ELSE "File " \o c.fileName
                                            \o " does not exist. Provide a prompt to create it.")
                        ELSE Return(s, IF r.content # ""
                                       THEN "Current content of " \o c.fileName \o ":\n^^^"
                                            \o FileExt(c.fileName) \o "\n" \o r.content
                                            \o "\n^^^\nProvide a prompt to update the content."
                                       ELSE "Please provide content to create the file.")
                   ELSE askAI(s, c.prompt))
    /\ UNCHANGED asked
    /\ HandlerFrame

\* model.generateContent returns or throws
GenerateReturns ==
    /\ chat.pc = "generate"
    /\ \/ \E text \in GenResponses :
              Becomes(Continue([Now EXCEPT !.history = Append(@, [role |-> "assistant",
                                                                  content |-> text])],
                               ArrayResult(answerBlocks[text])))
       \/ \E message \in GenFailures : Becomes(Continue(Now, AskAICatch(message)))
    /\ UNCHANGED asked
    /\ HandlerFrame

\* the FileManager call of askAI's commandHandlers returns or throws
CommandReturns ==
    /\ chat.pc = "ai_fs"
    /\ LET c == chat
       IN  \E o \in FileOutcomes(files, c.aiOp, c.aiFile, c.aiContent) :
               Becomes(IF o.ok
                       THEN Continue([Now EXCEPT !.files = o.files],
                                     StringResult("File " \o c.aiFile \o " " \o c.aiOp
                                                  \o "d successfully"))
                       ELSE Continue(Now, AskAICatch(o.message)))
    /\ UNCHANGED asked
    /\ HandlerFrame

\* /apply: vscode.workspace.fs.stat returns or throws
ApplyStatReturns ==
    /\ chat.pc = "apply_stat"
    /\ LET c == chat
           full == PathJoin(workspaceRoot, c.fileName)
       IN  \E fileExists \in {FALSE} \cup {full \in DOMAIN files} :
               Becomes(IF fileExists /\ Includes(c.lastContent, newCodeMarker)
                       THEN [Now EXCEPT !.chat.pc = "apply_read"]
                       ELSE [Now EXCEPT !.chat.pc = "apply_write",
                                        !.chat.via = IF fileExists THEN "update" ELSE "create",
                                        !.chat.content = c.lastContent])
    /\ UNCHANGED asked
    /\ HandlerFrame

\* /apply of an append: vscode.workspace.fs.readFile returns or throws
ApplyReadReturns ==
    /\ chat.pc = "apply_read"
    /\ LET c == chat
           full == PathJoin(workspaceRoot, c.fileName)
       IN  \/ /\ full \in DOMAIN files
              /\ Becomes([Now EXCEPT !.chat.pc = "apply_write", !.chat.via = "append",
                                     !.chat.content = files[full] \o "\n\n" \o newCodeMarker
                                         \o "\n" \o Trim(AfterMarker1(c.lastContent))])
           \/ Becomes(Throw(Now, "Failed to apply changes: Failed to handle file operation: IOError"))
    /\ UNCHANGED asked
    /\ HandlerFrame

\* /apply: updateFile or createFile returns or throws
ApplyWriteReturns ==
    /\ chat.pc = "apply_write"
    /\ LET c == chat
           op == IF c.via = "create" THEN "create" ELSE "update"
       IN  \E o \in FileOutcomes(files, op, c.fileName, c.content) :
               Becomes(IF o.ok
                       THEN Return([Now EXCEPT !.files = o.files],
                                   CASE c.via = "append" ->
                                          "Updated file " \o c.fileName
                                              \o " with the new code appended"
                                     [] c.via = "update" ->
                                          "Updated file " \o c.fileName
                                              \o " with the generated content"
                                     [] OTHER ->
                                          "Created file " \o c.fileName
                                              \o " with the generated content")
                       ELSE Throw(Now, "Failed to apply changes: Failed to handle file operation: "
                                       \o o.message))
    /\ UNCHANGED asked
    /\ HandlerFrame

\* /delete: deleteFile returns or throws
DeleteReturns ==
    /\ chat.pc = "delete"
    /\ \E o \in FileOutcomes(files, "delete", chat.fileName, "") :
           Becomes(IF o.ok
                   THEN Return([Now EXCEPT !.files = o.files], "Deleted file " \o chat.fileName)
                   ELSE Throw(Now, "Failed to delete file: " \o o.message))
    /\ UNCHANGED asked
    /\ HandlerFrame

\* handleCreateFileCommand: createFile returns or throws
CreateFileReturns ==
    /\ chat.pc = "nl_create"
    /\ \E o \in FileOutcomes(files, "create", chat.fileName, chat.content) :
           Becomes(IF o.ok
                   THEN Return([Now EXCEPT !.files = o.files],
                               "Created file " \o chat.fileName \o " successfully"
                                   \o (IF chat.content # "" THEN " with the specified content"
                                       ELSE ""))
                   ELSE Throw(Now, o.message))
    /\ UNCHANGED asked
    /\ HandlerFrame

\* the 'ask' handler, a block that names a file: updateFile returns or throws
BlockUpdateReturns ==
    /\ chat.pc = "block_update"
    /\ LET block == chat.response[chat.index]
       IN  \E o \in FileOutcomes(files, "update", block.file, block.code) :
               Becomes(IF o.ok
                       THEN ProcessBlocks(Post([Now EXCEPT !.files = o.files],
                                               "Updated file: " \o block.file),
                                          chat.index + 1)
                       ELSE [Now EXCEPT !.chat.pc = "block_create", !.chat.error = o.message])
    /\ UNCHANGED asked
    /\ HandlerFrame

\* the 'ask' handler after updateFile threw: createFile returns or throws
BlockCreateReturns ==
    /\ chat.pc = "block_create"
    /\ LET block == chat.response[chat.index]
       IN  \E o \in FileOutcomes(files, "create", block.file, block.code) :
               Becomes(IF o.ok
                       THEN ProcessBlocks(Post([Now EXCEPT !.files = o.files],
                                               "Created file: " \o block.file),
                                          chat.index + 1)
                       ELSE ProcessBlocks(Post(Now, "Error handling file " \o block.file
                                                    \o ": " \o chat.error),
                                          chat.index + 1))
    /\ UNCHANGED asked
    /\ HandlerFrame

\* an external call of the handler returns or throws
Returns ==
    \/ SuggestReturns
    \/ ReadReturns
    \/ GenerateReturns
    \/ CommandReturns
    \/ ApplyStatReturns
    \/ ApplyReadReturns
    \/ ApplyWriteReturns
    \/ DeleteReturns
    \/ CreateFileReturns
    \/ BlockUpdateReturns
    \/ BlockCreateReturns

InitChat ==
    /\ workspaceRoot = workspaceRootPath
    /\ files = InitFiles
    /\ dirs = InitDirs
    /\ readonly = {}
    /\ cs = [i \in Procs |-> IdleCall]
    /\ snap = [files |-> files, dirs |-> dirs]
    /\ calls = 0
    /\ SgIdle
    /\ ChatIdle

ChatNext ==
    \/ ShowSidebar
    \/ Dispose
    \/ ClearHistory
    \/ Receive
    \/ Returns

SpecChat == InitChat /\ [][ChatNext]_vars

\* the chat before its last message: nothing was generated, or content was
\* generated for the existing file a, or for the missing file n
LastStates ==
    { [history |-> <<>>, cache |-> <<>>, gen |-> <<>>],
      [history |-> << [role |-> "user", content |-> "p"],
                      [role |-> "assistant", content |-> "^^^js\nA\n^^^"] >>,
       cache |-> [f \in {"a"} |-> "old;\n\n\n/* New code */\nA\n"],
       gen |-> [f \in {"a"} |-> [arg |-> "a",
                                 content |-> "old;\n\n\n/* New code */\nA\n"]]],
      [history |-> << [role |-> "user", content |-> "p"],
                      [role |-> "assistant", content |-> "^^^js\nA\n^^^"] >>,
       cache |-> [f \in {"n"} |-> "A\n"],
       gen |-> [f \in {"n"} |-> [arg |-> "n", content |-> "A\n"]]] }

InitChatLast ==
    /\ workspaceRoot = workspaceRootPath
    /\ files = InitFiles
    /\ dirs = InitDirs
    /\ readonly = {}
    /\ cs = [i \in Procs |-> IdleCall]
    /\ snap = [files |-> files, dirs |-> dirs]
    /\ calls = 0
    /\ SgIdle
    /\ \E last \in LastStates :
           /\ conversationHistory = last.history
           /\ lastGeneratedContent = last.cache
           /\ gen = last.gen
    /\ chatPanel = TRUE
    /\ outbox = <<>>
    /\ chat = IdleChat
    /\ asked = MaxMessages - 1
    /\ clears = 0
    /\ applied = [arg |-> "", content |-> ""]
    /\ dropped = {}
    /\ waits = 0

\* the steps in which an external call returns or throws are the steps that
\* change waits
CallReturns == chat.pc # "idle" /\ waits' \in {0, waits + 1}

\* the last message; every external call eventually returns or throws
SpecChatFair == InitChatLast /\ [][ChatNext]_vars /\ WF_waits(CallReturns)
\* a response to 'ask' message number n has been posted to the webview
Answered(n) == \E k \in 1..Len(outbox) : outbox[k].command = "response" /\ outbox[k].ask = n

(***************************************************************************)
(* C19: every 'ask' message received eventually yields at least one        *)
(* 'response' message posted, whatever fails while it is handled; the       *)
(* handler returns (no exception escapes it), each external call being      *)
(* assumed to return or throw eventually.                                   *)
(***************************************************************************)
C19_EveryAskAnswered ==
    (asked = MaxMessages) ~> (chat.pc = "idle" /\ Answered(MaxMessages))

(***************************************************************************)
(* C19, amended: every 'ask' message received eventually yields at least   *)
(* one 'response' message posted, or, when the chat panel was disposed      *)
(* while the message was handled, a response that is not posted because     *)
(* chatPanel is undefined; in both cases the handler returns.               *)
(***************************************************************************)
C19_AnsweredUnlessDisposed ==
    (asked = MaxMessages) ~>
        (chat.pc = "idle" /\ (Answered(MaxMessages) \/ MaxMessages \in dropped))

\* the handler has turned a failure into the text of a response
C19_Witness ==
    /\ chat.pc = "idle"
    /\ asked > 0
    /\ \E k \in 1..Len(outbox) :
           outbox[k].ask = asked /\ StartsWith(outbox[k].text, "Error: Failed to delete file")

\* ---------------------------------------------------------------------------
\* C17
\* ---------------------------------------------------------------------------

\* h is p, possibly followed by more entries
IsPrefix(p, h) == Len(p) <= Len(h) /\ SubSeq(h, 1, Len(p)) = p

\* C17: the conversation history is append-only.  Every step that is not a
\* call of clearConversationHistory leaves the history it found as a prefix of
\* the history it leaves, whether the step belongs to a successful call of
\* askAI, a failing one, or one handled as a slash command; so no entry is
\* reordered, modified or removed, and a history that had entries is empty
\* afterwards only when clearConversationHistory ran.
C17_AppendOnly ==
    [][clears' = clears => IsPrefix(conversationHistory, conversationHistory')]_vars

\* C17 witness: all messages have been handled, the first was answered by the
\* model and the last failed in the model call: the history holds the first
\* exchange and the prompt of the failed one.
C17_Witness ==
    /\ chat.pc = "idle"
    /\ asked = MaxMessages
    /\ Len(conversationHistory) = 3
    /\ conversationHistory[2].role = "assistant"
    /\ conversationHistory[3].role = "user"
    /\ \E k \in 1..Len(outbox) : StartsWith(outbox[k].text, "Error: ")

\* ---------------------------------------------------------------------------
\* C18
\* ---------------------------------------------------------------------------

\* the step stores the content of a successful generation for the path f
StoresGeneration(f) ==
    /\ chat.pc = "generate"
    /\ chat.via # "plain"
    /\ chat.fileName = f
    /\ f \in DOMAIN gen'
    /\ gen'[f].arg = chat.arg
    /\ lastGeneratedContent'[f] = gen'[f].content

\* no entry of the cache is removed, and an entry is added or changed only by
\* the step that stores a successful generation for its path
CacheKept ==
    /\ DOMAIN lastGeneratedContent \subseteq DOMAIN lastGeneratedContent'
    /\ \A f \in DOMAIN lastGeneratedContent' :
           \/ f \in DOMAIN lastGeneratedContent
              /\ lastGeneratedContent'[f] = lastGeneratedContent[f]
           \/ StoresGeneration(f)

\* an /apply command reads what the latest successful generation that was
\* given the same file name has stored
ApplyReadsGenerated ==
    applied' # applied =>
        \A f \in DOMAIN gen : gen[f].arg = applied'.arg => applied'.content = gen[f].content

\* C18: after any sequence of generation commands (@<file> <prompt>, /create,
\* /update) and /apply commands, the cache entry of a path is the content
\* stored by the most recent successful generation for that path; /apply,
\* failed generations and all other commands never remove or change an entry;
\* and /apply <file> reads the entry stored under the file name the generation
\* used.
C18_CacheAndApply == [][CacheKept /\ ApplyReadsGenerated]_vars

\* ---------------------------------------------------------------------------
\* C22
\* ---------------------------------------------------------------------------

\* the lines of a text, each ended by its \n; what follows the last \n is a
\* line only if it is not empty
TextLines(s) ==
    LET ls == SplitLines(s, 1, "")
    IN  IF ls[Len(ls)] = "" THEN SubSeq(ls, 1, Len(ls) - 1) ELSE ls

NoCarriageReturn(s) == \A k \in 1..Len(s) : At(s, k) # "\r"

\* no two consecutive lines are both blank
NoBlankRun(s) ==
    LET ls == TextLines(s)
    IN  \A k \in 1..(Len(ls) - 1) : ~(Trim(ls[k]) = "" /\ Trim(ls[k + 1]) = "")

\* one \n at the end, not two
OneTrailingNewline(s) == EndsWith(s, "\n") /\ ~EndsWith(s, "\n\n")

\* the calls of createFile and updateFile that have returned
Written == {i \in Procs : Done(i) /\ cs[i].result = "ok" /\ cs[i].op \in {"create", "update"}}

\* C22: the content written by createFile and updateFile, on a non-Windows
\* host and for every input content, contains no \r, contains no run of two
\* or more consecutive blank lines, and ends with exactly one trailing \n.
C22_WrittenContentNormal ==
    \A i \in Written :
        LET written == files[cs[i].fullPath]
        IN  /\ NoCarriageReturn(written)
            /\ NoBlankRun(written)
            /\ OneTrailingNewline(written)

\* ---------------------------------------------------------------------------
\* C23
\* ---------------------------------------------------------------------------

\* the call has copied its target to <path>.bak
BackupMade(c) ==
    \E k \in Entries(c, "copyFile") :
        c.log[k].path = backupPath(c.fullPath) /\ c.log[k].res = "ok"

\* the I/O calls of the call that failed
FailedIo(c) == {k \in 1..Len(c.log) : c.log[k].res # "ok"}

\* the only I/O call that failed is the write or the deletion of the target,
\* and the target was copied back from the backup afterwards
RolledBack(c) ==
    \E k \in 1..Len(c.log) :
        /\ FailedIo(c) = {k}
        /\ c.log[k].io \in {"writeFile", "unlink"}
        /\ c.log[k].path = c.fullPath
        /\ \E j \in (k + 1)..Len(c.log) :
               c.log[j].io = "copyFile" /\ c.log[j].path = c.fullPath

\* C23: whenever a single updateFile or deleteFile call has terminated, by
\* returning or by propagating a write or deletion failure after the
\* rollback, the backup file <path>.bak that the call created no longer
\* exists.
C23_BackupRemoved ==
    \A i \in Procs :
        LET c == cs[i]
        IN  (/\ Done(i)
             /\ c.op \in {"update", "delete"}
             /\ BackupMade(c)
             /\ (c.result = "ok" \/ (Failed(c) /\ RolledBack(c))))
            => backupPath(c.fullPath) \notin DOMAIN files

\* ---------------------------------------------------------------------------
\* C24
\* ---------------------------------------------------------------------------

\* the I/O calls of a call that changed the disk: those that succeeded, and
\* the writes that failed leaving their target truncated
Effective(c) ==
    {k \in 1..Len(c.log) : c.log[k].io \in {"writeFile", "copyFile", "unlink"}
                           /\ c.log[k].res \in {"ok", "torn"}}

OtherFiles(p) ==
    {q \in DOMAIN files \cup DOMAIN snap.files : InWorkspace(q) /\ q # p}

\* C25: updateFile(p) and deleteFile(p), whether they succeed or fail, change
\* no workspace file other than p; in particular a file that was at p.bak
\* before the call is there with its original content after the call.
C25_OnlyTargetChanged ==
    \A i \in Procs :
        (Done(i) /\ cs[i].op \in {"update", "delete"} /\ cs[i].fullPath # "")
            => \A q \in OtherFiles(cs[i].fullPath) : SameFile(q)

\* ---------------------------------------------------------------------------
\* C30
\* ---------------------------------------------------------------------------

\* both callers have called updateFile and both calls have terminated
BothDone == \A i \in Procs : Done(i) /\ cs[i].op = "update"

\* C30: when two updateFile calls on the same existing path run concurrently,
\* their backup, write and backup-removal steps interleaved at the awaits,
\* and no I/O operation fails on its own, both calls return successfully, the
\* file finally holds the normalized content of one of the two calls, and no
\* .bak file remains.
C30_ConcurrentUpdates ==
    BothDone =>
        /\ \A i \in Procs : cs[i].result = "ok"
        /\ \E i \in Procs : files["/w/a"] = normalizeLineEndings(cs[i].content)
        /\ "/w/a.bak" \notin DOMAIN files

\* ---------------------------------------------------------------------------
\* C28
\* ---------------------------------------------------------------------------

\* user and assistant entries in turn, each user entry followed by its reply
Alternates(history) ==
    /\ Len(history) % 2 = 0
    /\ \A k \in 1..Len(history) :
           history[k].role = IF k % 2 = 1 THEN "user" ELSE "assistant"

\* C28: in askAI, run sequentially, a call whose model request fails leaves
\* the conversation history unchanged, so that after any sequence of calls
\* (clearConversationHistory not being called meanwhile) the history is a
\* strict alternation of user and assistant entries with every user entry
\* followed by its assistant reply.
C28_HistoryAlternates ==
    (chat.pc = "idle" /\ clears = 0) => Alternates(conversationHistory)

\* ---------------------------------------------------------------------------
\* C29
\* ---------------------------------------------------------------------------

\* the handler is handling @<file> <prompt>, /create <file> <prompt> or
\* /update <file> <prompt>
Generating == chat.pc # "idle" /\ chat.via \in {"file", "slash"}

\* C29: the generation commands @<file> <prompt>, /create <file> <prompt> and
\* /update <file> <prompt> only read files and populate the generated-content
\* cache: for every prompt text, including a prompt that itself begins with
\* '/create', '/update' or '/delete', no step of their handling creates,
\* modifies or deletes a workspace file.
C29_GenerationLeavesDisk == [][Generating => files' = files]_vars

(***************************************************************************)
(* Rounds of generate-then-apply on the existing file a: a generation      *)
(* command, then /apply, and so on.                                        *)
(***************************************************************************)
MaxRounds == 2

GenerateTexts == {"@a p", "/update a p"}

\* the webview sends the next message of a round; the handler runs to its
\* first await
ReceiveRound ==
    /\ chatPanel
    /\ chat.pc = "idle"
    /\ asked < 2 * MaxRounds
    /\ asked' = asked + 1
    /\ \E text \in (IF asked % 2 = 0 THEN GenerateTexts ELSE {"/apply a"}) :
           Becomes(Dispatch([Now EXCEPT !.chat.ask = asked + 1, !.outbox = <<>>,
                                        !.dropped = {}], text))
    /\ HandlerFrame

RoundsNext ==
    \/ ShowSidebar
    \/ ReceiveRound
    \/ ReadReturns
    \/ GenerateReturns
    \/ ApplyStatReturns
    \/ ApplyReadReturns
    \/ ApplyWriteReturns

SpecRounds == InitChat /\ [][RoundsNext]_vars

\* ---------------------------------------------------------------------------
\* C27
\* ---------------------------------------------------------------------------

\* what a generation puts between the existing content and the new code
appendSeparator == "\n\n" \o newCodeMarker \o "\n"

\* the file that /apply is writing
ApplyTarget == PathJoin(workspaceRoot, chat.fileName)

\* /apply is appending, and the content it read from the cache was generated
\* in this round: from the file as it is now
AppendsThisRound ==
    /\ chat.pc = "apply_write"
    /\ chat.via = "append"
    /\ ApplyTarget \in DOMAIN files
    /\ StartsWith(chat.lastContent, files[ApplyTarget] \o appendSeparator)

\* the code generated in this round
LatestCode == Drop(chat.lastContent, Len(files[ApplyTarget] \o appendSeparator))

\* C27: for every sequence of generate-then-apply rounds on one existing
\* file, each /apply in append mode sets the file content to the file's
\* current content followed by the '/* New code */' marker and exactly the
\* code generated in the most recent round, as updateFile writes it; code from
\* an earlier round is never appended again and the newest code is never
\* omitted.
C27_AppendsLatestCode ==
    [][(AppendsThisRound /\ files' # files)
           => files'[ApplyTarget] =
                  normalizeLineEndings(files[ApplyTarget] \o appendSeparator \o LatestCode)]_vars

\* ---------------------------------------------------------------------------
\* C26
\* ---------------------------------------------------------------------------

\* call i is about to write its target (vscode.workspace.fs.writeFile in
\* createFile or in updateFile) and the target holds a file
Overwrites(i) ==
    /\ cs[i].pc \in {"create_write", "update_write"}
    /\ IsFile(files, cs[i].fullPath)

\* C26: no existing file's content is overwritten without a backup.  In
\* every reachable state in which an operation (createFile, called directly
\* or by a caller that falls back to it, or updateFile) writes to a path that
\* already holds a file, a .bak copy of that file's content exists at the
\* moment of the write.
C26_BackupBeforeOverwrite ==
    \A i \in Procs :
        Overwrites(i) =>
            /\ backupPath(cs[i].fullPath) \in DOMAIN files
            /\ files[backupPath(cs[i].fullPath)] = files[cs[i].fullPath]

\* ---------------------------------------------------------------------------
\* C21
\* ---------------------------------------------------------------------------

\* the 'ask' handler is processing a block that names a file, updateFile on
\* that file has thrown, and the handler has not moved on to the next block
UpdateOfBlockFailed == chat.pc = "block_create"

\* C21: there is no automatic retry of file operations.  Within the handling
\* of one 'ask' whose response holds a code block that names a file, once the
\* file operation on that path has failed, no further write to that path is
\* made for that action: the step the handler takes after the failure leaves
\* the disk as it is.
C21_NoWriteAfterFailure ==
    [][UpdateOfBlockFailed => files' = files]_vars

====
